---- MODULE Spec2Model ----
(***************************************************************************)
(* ts-outcome: the deferred-effect container IO, and the containers Option  *)
(* and Result with their constructors, extractions and combinators.        *)
(*                                                                         *)
(* JavaScript values are tagged records: [t |-> "num", n], [t |-> "bool",  *)
(* b], [t |-> "undefined"], [t |-> "null"], [t |-> "Error", message],      *)
(* [t |-> "opt", id, kind, data], [t |-> "res", id, kind, data],           *)
(* [t |-> "io", effect]. A function given by a caller is a record          *)
(* [k |-> ...] naming what it does.                                        *)
(*                                                                         *)
(* Spec is IO; ValueSpec is any sequence of Option and Result calls on the *)
(* containers constructed so far (heap), starting from Option.none.        *)
(***************************************************************************)
EXTENDS Integers, Sequences, FiniteSets, TLC

VARIABLES ios, made, runs, calls, call, heap

vars == <<ios, made, runs, calls, call, heap>>

\* Bounds of the model.
MaxVal == 1
MaxIOs == 3
MaxRuns == 2
MaxObjs == 3
MaxFairRuns == 1

(***************************************************************************)
(* Values                                                                  *)
(***************************************************************************)
Num(n) == [t |-> "num", n |-> n]
Undefined == [t |-> "undefined"]
Null == [t |-> "null"]
Error(message) == [t |-> "Error", message |-> message]
\* Stands for the backtick character, which a TLA+ string cannot hold.
BT == "<backtick>"

Values == {Num(n) : n \in 0..MaxVal}
Errors == {Error("e1"), Error("e2")}

\* A synchronous call either returns a value or throws one.
Return(v) == [threw |-> FALSE, val |-> v]
Throw(e) == [threw |-> TRUE, val |-> e]

\* One invocation of a caller's function, and the outcome of a library call
\* together with the invocations it made, in order.
Invoked(f, args) == [f |-> f, args |-> args]
Done(out, invoked) ==
  [threw |-> out.threw, val |-> out.val, invoked |-> invoked]

\* A panic that drops the "panicked at" frame around the message.
PanicBare(msg) == Throw(Error(msg))

\* panic(msg) throws new Error("panicked at '" + msg + "'").
panic(msg) == Throw(Error("panicked at '" \o msg \o "'"))

(***************************************************************************)
(* IO: construction                                                        *)
(***************************************************************************)
\* A future: pending on producer p, or settled with val.
Pending(p) == [st |-> "pending", p |-> p, val |-> Undefined]
Resolved(v) == [st |-> "resolved", p |-> "", val |-> v]
Rejected(e) == [st |-> "rejected", p |-> "", val |-> e]

\* The closures IO stores in its effect field.
ResolveEffect(value) == [k |-> "resolve", value |-> value]
ProducerEffect(p) == [k |-> "producer", p |-> p]
CatchEffect(this, handler) == [k |-> "catch", this |-> this, f |-> handler]
ChainEffect(this, mapper) == [k |-> "chain", this |-> this, f |-> mapper]

IOnew(effect) == [t |-> "io", effect |-> effect]

\* A from that wraps whatever it is given, a container included.
IOfromWrap(value) == IOnew(ResolveEffect(value))

IOfrom(value) ==
  IF value.t = "io" THEN IOnew(value.effect) ELSE IOnew(ResolveEffect(value))

IOfromPromise(promise) == IOnew(ProducerEffect(promise))

IOcatch(this, handler) == IOnew(CatchEffect(this, handler))

IOchain(this, mapper) == IOnew(ChainEffect(this, mapper))

(***************************************************************************)
(* IO: the functions a caller supplies                                     *)
(***************************************************************************)
\* Producers handed to IO.fromPromise: p1 and p2 return a future the
\* environment settles later; pThrow raises before returning one.
Producers == {"p1", "p2", "pThrow"}
Mappers == {"mInc", "mProm", "mThrow"}
Handlers == {"hFrom", "hProm", "hThrow"}
Fns == Producers \cup Mappers \cup Handlers

ProducerCall(p) ==
  IF p = "pThrow" THEN Throw(Error("sync")) ELSE Return(Pending(p))

\* (value) => IO.from(value + 1), (value) => IO.fromPromise(p2), and a
\* mapper that raises.
MapperCall(m, value) ==
  CASE m = "mInc" ->
         Return(IOfrom(IF value.t = "num"
                       THEN Num((value.n + 1) % (MaxVal + 1))
                       ELSE [t |-> "NaN"]))
    [] m = "mProm" -> Return(IOfromPromise("p2"))
    [] OTHER -> Throw(Error("m"))

\* () => IO.from(0), () => IO.fromPromise(p2), and a handler that raises.
HandlerCall(h, error) ==
  CASE h = "hFrom" -> Return(IOfrom(Num(0)))
    [] h = "hProm" -> Return(IOfromPromise("p2"))
    [] OTHER -> Throw(Error("h"))

(***************************************************************************)
(* IO: execution                                                           *)
(***************************************************************************)
\* What an execution records, in order.
InvokeEv(p) == [ev |-> "invoke", fn |-> p]
SettleEv(fut) == [ev |-> "settle", st |-> fut.st, val |-> fut.val]
CallEv(f, arg, at) == [ev |-> "call", fn |-> f, arg |-> arg, at |-> at]
ThrowEv(f, e) == [ev |-> "throw", fn |-> f, val |-> e]

\* The reactions registered on a future by then(...) and catch(...).
ThenFrame(mapper) == [k |-> "then", f |-> mapper]
CatchFrame(handler) == [k |-> "catch", f |-> handler]

\* A synchronous invocation of an effect closure: it raises val, or returns
\* a future: the innermost future fut with the reactions frames registered
\* on it, innermost first.
Raised(e, events) ==
  [threw |-> TRUE, val |-> e, frames |-> <<>>, fut |-> Rejected(e),
   events |-> events]
Returned(fut, frames, events) ==
  [threw |-> FALSE, val |-> Undefined, frames |-> frames, fut |-> fut,
   events |-> events]

\* () => Promise.resolve(value)
InvokeResolve(value) ==
  Returned(Resolved(value), <<>>,
           <<InvokeEv("resolve"), SettleEv(Resolved(value))>>)

\* The producer given to fromPromise.
InvokeProducer(p) ==
  LET c == ProducerCall(p) IN
  IF c.threw THEN Raised(c.val, <<InvokeEv(p), ThrowEv(p, c.val)>>)
  ELSE Returned(c.val, <<>>, <<InvokeEv(p)>>)

\* A chain that calls its mapper as soon as it is invoked, without waiting
\* for the future of this.effect.
InvokeChainEager(self, mapper) ==
  IF self.threw THEN self
  ELSE [self EXCEPT
          !.events = @ \o <<CallEv(mapper, self.fut.val, Len(self.frames))>>,
          !.frames = Append(@, ThenFrame(mapper))]

\* A chain whose callback is registered below the reactions of this.effect
\* instead of on the future this.effect returned.
InvokeChainBelow(self, mapper) ==
  IF self.threw THEN self
  ELSE [self EXCEPT !.frames = <<ThenFrame(mapper)>> \o @]

\* () => this.effect().then((result) => mapper(result).effect()), given the
\* invocation of this.effect.
InvokeChain(self, mapper) ==
  IF self.threw THEN self
  ELSE [self EXCEPT !.frames = Append(@, ThenFrame(mapper))]

\* () => this.effect().catch((error) => handler(error).effect()), given the
\* invocation of this.effect.
InvokeCatch(self, handler) ==
  IF self.threw THEN self
  ELSE [self EXCEPT !.frames = Append(@, CatchFrame(handler))]

RECURSIVE Invoke(_)
Invoke(effect) ==
  CASE effect.k = "resolve" -> InvokeResolve(effect.value)
    [] effect.k = "producer" -> InvokeProducer(effect.p)
    [] effect.k = "chain" -> InvokeChain(Invoke(effect.this.effect), effect.f)
    [] OTHER -> InvokeCatch(Invoke(effect.this.effect), effect.f)

IOrun(this) == Invoke(this.effect)

\* A reaction's callback raised or returned a future; either way the future
\* then/catch returned follows it.
Follow(c, events) ==
  [frames |-> IF c.threw THEN <<>> ELSE c.frames,
   fut |-> IF c.threw THEN Rejected(c.val) ELSE c.fut,
   events |-> events \o c.events]

\* (result) => mapper(result).effect()
ChainCallback(mapper, result, at) ==
  LET c == MapperCall(mapper, result) IN
  IF c.threw
  THEN Follow(Raised(c.val, <<ThrowEv(mapper, c.val)>>),
              <<CallEv(mapper, result, at)>>)
  ELSE Follow(IOrun(c.val), <<CallEv(mapper, result, at)>>)

\* (error) => handler(error).effect()
CatchCallback(handler, error, at) ==
  LET c == HandlerCall(handler, error) IN
  IF c.threw
  THEN Follow(Raised(c.val, <<ThrowEv(handler, c.val)>>),
              <<CallEv(handler, error, at)>>)
  ELSE Follow(IOrun(c.val), <<CallEv(handler, error, at)>>)

PassThrough(fut) == [frames |-> <<>>, fut |-> fut, events |-> <<>>]

\* A then whose callback runs however the future settled.
ThenReactionAny(mapper, fut, at) == ChainCallback(mapper, fut.val, at)

\* A then that, on a rejected future, stays registered and waits for a
\* resolution that never comes.
ThenReactionWaits(mapper, fut, at) ==
  IF fut.st = "resolved" THEN ChainCallback(mapper, fut.val, at)
  ELSE [frames |-> <<ThenFrame(mapper)>>, fut |-> fut, events |-> <<>>]

\* promise.then(callback): the callback runs on a resolved future only.
ThenReaction(mapper, fut, at) ==
  IF fut.st = "resolved" THEN ChainCallback(mapper, fut.val, at)
  ELSE PassThrough(fut)

\* A catch whose callback runs however the future settled.
CatchReactionAlways(handler, fut, at) == CatchCallback(handler, fut.val, at)

\* A catch that stays registered on the recovery container's future.
CatchReactionRetry(handler, fut, at) ==
  IF fut.st = "rejected"
  THEN LET c == CatchCallback(handler, fut.val, at)
       IN [c EXCEPT !.frames = Append(@, CatchFrame(handler))]
  ELSE PassThrough(fut)

\* promise.catch(callback): the callback runs on a rejected future only.
CatchReaction(handler, fut, at) ==
  IF fut.st = "rejected" THEN CatchCallback(handler, fut.val, at)
  ELSE PassThrough(fut)

Reaction(frame, fut, at) ==
  IF frame.k = "then" THEN ThenReaction(frame.f, fut, at)
  ELSE CatchReaction(frame.f, fut, at)

\* The invocation counts after events.
Count(events, f) ==
  Cardinality({j \in 1..Len(events) :
                 events[j].ev \in {"invoke", "call"} /\ events[j].fn = f})
Bump(c, events) == [f \in Fns |-> c[f] + Count(events, f)]

\* One execution: the container run, the future run() returned (the
\* innermost future and the reactions still to run on it) and its record.
Execution(i, inv) ==
  [io |-> i, stack |-> inv.frames,
   fut |-> IF inv.threw THEN [st |-> "threw", p |-> "", val |-> inv.val]
           ELSE inv.fut,
   log |-> inv.events]

\* The state of the future run() returned.
Outcome(r) == IF r.stack = <<>> THEN r.fut ELSE Pending("")
Settled(r) == Outcome(r).st \in {"resolved", "rejected"}
Finished(r) == Outcome(r).st # "pending"

(***************************************************************************)
(* Option and Result: the last call made                                   *)
(***************************************************************************)
\* An object's identity is its id: Option.none is allocated once, when the
\* class is loaded; every other object by the call that constructs it.
OptionNew(kind, data, id) ==
  [t |-> "opt", id |-> id, kind |-> kind, data |-> data]

OptionNone == OptionNew("None", Undefined, "Option.none")

OptionSome(value, id) == OptionNew("Some", value, id)

OptionIsSome(this) == this.kind = "Some"

OptionIsNone(this) == this.kind = "None"

ResultNew(kind, data, id) ==
  [t |-> "res", id |-> id, kind |-> kind, data |-> data]

ResultOk(value, id) == ResultNew("Ok", value, id)

ResultErr(error, id) == ResultNew("Err", error, id)

ResultIsOk(this) == this.kind = "Ok"

ResultIsErr(this) == this.kind = "Err"

IsNullish(value) == value.t \in {"null", "undefined"}

\* An expect that returns the payload field whatever the variant.
OptionExpectUnchecked(this, message) == Return(this.data)

OptionExpect(this, message) ==
  IF OptionIsNone(this) THEN panic(message) ELSE Return(this.data)

OptionUnwrap(this) ==
  OptionExpect(this, "called " \o BT \o "Option.unwrap()" \o BT \o " on a "
                       \o BT \o "None" \o BT \o " value")

ResultExpect(this, message) ==
  IF ResultIsErr(this) THEN panic(message) ELSE Return(this.data)

ResultUnwrap(this) ==
  ResultExpect(this, "called " \o BT \o "Result.unwrap()" \o BT \o " on an "
                       \o BT \o "Err" \o BT \o " value")

ResultExpectErr(this, message) ==
  IF ResultIsOk(this) THEN panic(message) ELSE Return(this.data)

ResultUnwrapErr(this) ==
  ResultExpectErr(this, "called " \o BT \o "Result.unwrapErr()" \o BT
                          \o " on an " \o BT \o "Ok" \o BT \o " value")

\* The functions a caller hands to tryFrom and tryFromNullable: one that
\* returns val, one that throws val, and ones that extract from the wrong
\* variant.
Messages == {"boom", "bad state"}
Payloads == Values \cup {Null, Undefined}
PanicFns ==
  {[k |-> "Option.unwrap"], [k |-> "Result.unwrap"],
   [k |-> "Result.unwrapErr"]}
    \cup {[k |-> "Option.expect", message |-> m] : m \in Messages}
Fn0s ==
  {[k |-> "return", val |-> v] : v \in Payloads}
    \cup {[k |-> "throw", val |-> e] : e \in Errors}
    \cup PanicFns

Fn0Call(fn) ==
  CASE fn.k = "return" -> Return(fn.val)
    [] fn.k = "throw" -> Throw(fn.val)
    [] fn.k = "Option.unwrap" -> OptionUnwrap(OptionNone)
    [] fn.k = "Option.expect" -> OptionExpect(OptionNone, fn.message)
    [] fn.k = "Result.unwrap" -> ResultUnwrap(ResultErr(Error("e1"), "tmp"))
    [] OTHER -> ResultUnwrapErr(ResultOk(Num(0), "tmp"))

\* A fromNullable that tests for null alone.
OptionFromNullableNullOnly(value, id) ==
  IF value.t = "null" THEN OptionNone ELSE OptionSome(value, id)

OptionFromNullable(value, id) ==
  IF IsNullish(value) THEN OptionNone ELSE OptionSome(value, id)

\* try { return Option.some(fn()); } catch (e) { return Option.none; }
OptionTryFrom(fn, id) ==
  LET c == Fn0Call(fn) IN
  Done(IF c.threw THEN Return(OptionNone) ELSE Return(OptionSome(c.val, id)),
       <<Invoked(fn, <<>>)>>)

OptionTryFromNullable(fn, id) ==
  LET c == Fn0Call(fn) IN
  Done(IF c.threw THEN Return(OptionNone)
       ELSE Return(OptionFromNullable(c.val, id)),
       <<Invoked(fn, <<>>)>>)

ResultFromNullable(value, error, id) ==
  IF IsNullish(value) THEN ResultErr(error, id) ELSE ResultOk(value, id)

\* A tryFrom that keeps the exception it caught as the Err payload.
ResultTryFromRaised(fn, error, id) ==
  LET c == Fn0Call(fn) IN
  Done(IF c.threw THEN Return(ResultErr(c.val, id))
       ELSE Return(ResultOk(c.val, id)),
       <<Invoked(fn, <<>>)>>)

\* try { return Result.ok(fn()); } catch (e) { return Result.err(error); }
ResultTryFrom(fn, error, id) ==
  LET c == Fn0Call(fn) IN
  Done(IF c.threw THEN Return(ResultErr(error, id))
       ELSE Return(ResultOk(c.val, id)),
       <<Invoked(fn, <<>>)>>)

ResultTryFromNullable(fn, error, id) ==
  LET c == Fn0Call(fn) IN
  Done(IF c.threw THEN Return(ResultErr(error, id))
       ELSE Return(ResultFromNullable(c.val, error, id)),
       <<Invoked(fn, <<>>)>>)

NoCall == [op |-> "none"]
Called(op, this, args, ret) ==
  [op |-> op, this |-> this, args |-> args, ret |-> ret]

(***************************************************************************)
(* Functions handed to Option and Result, and what a call invokes          *)
(***************************************************************************)
Bool(b) == [t |-> "bool", b |-> b]

\* The truthiness JavaScript's ?: and && test.
Truthy(v) ==
  CASE v.t = "bool" -> v.b
    [] v.t = "num" -> v.n # 0
    [] v.t \in {"null", "undefined"} -> FALSE
    [] OTHER -> TRUE

\* A function value is a record with a field k; a property that is absent
\* from an object reads as undefined, which is not a function.
IsFunction(x) == "k" \in DOMAIN x

\* One-argument functions: the identity, a lookup table over the numbers
\* (x => tab[x], undefined outside the table), one that throws, a
\* predicate, ones that wrap the argument in a container, and ones that
\* return a container that exists already.
Compose(g, f) == [k |-> "compose", g |-> g, f |-> f]
Raising == {[k |-> "throw", val |-> Error("e1")]}
Fn1s ==
  {[k |-> "id"]} \cup Raising
    \cup {[k |-> "table", tab |-> f] : f \in [Values -> Values]}
Predicates == {[k |-> "isZero"]} \cup Raising

Fn1Base(fn, v, id) ==
  CASE fn.k = "id" -> Return(v)
    [] fn.k = "table" ->
         Return(IF v \in DOMAIN fn.tab THEN fn.tab[v] ELSE Undefined)
    [] fn.k = "throw" -> Throw(fn.val)
    [] fn.k = "isZero" -> Return(Bool(v = Num(0)))
    [] fn.k = "some" -> Return(OptionSome(v, id))
    [] fn.k = "none" -> Return(OptionNone)
    [] fn.k = "ok" -> Return(ResultOk(v, id))
    [] fn.k = "err" -> Return(ResultErr(v, id))
    [] OTHER -> Return(fn.val)

\* x => g(f(x))
Fn1Call(fn, v, id) ==
  IF fn.k = "compose"
  THEN LET c == Fn1Base(fn.f, v, id) IN
       IF c.threw THEN c ELSE Fn1Base(fn.g, c.val, id)
  ELSE Fn1Base(fn, v, id)

(***************************************************************************)
(* Option: the operations that take a function or another container        *)
(***************************************************************************)
OptionIsSomeAnd(this, predicate, id) ==
  IF OptionIsSome(this)
  THEN Done(Fn1Call(predicate, this.data, id \o ".fn"),
            <<Invoked(predicate, <<this.data>>)>>)
  ELSE Done(Return(Bool(FALSE)), <<>>)

OptionOkOr(this, error, id) ==
  IF OptionIsSome(this) THEN Return(ResultOk(this.data, id))
  ELSE Return(ResultErr(error, id))

\* An okOrElse that evaluates its error function before it tests the
\* variant.
OptionOkOrElseEager(this, error, id) ==
  LET c == Fn0Call(error) IN
  IF c.threw THEN Done(c, <<Invoked(error, <<>>)>>)
  ELSE Done(Return(IF OptionIsSome(this) THEN ResultOk(this.data, id)
                   ELSE ResultErr(c.val, id)),
            <<Invoked(error, <<>>)>>)

OptionOkOrElse(this, error, id) ==
  IF OptionIsSome(this) THEN Done(Return(ResultOk(this.data, id)), <<>>)
  ELSE LET c == Fn0Call(error) IN
       Done(IF c.threw THEN c ELSE Return(ResultErr(c.val, id)),
            <<Invoked(error, <<>>)>>)

\* Calling a property that is not a function throws a TypeError.
NotAFunction(name) ==
  Throw([t |-> "TypeError", message |-> name \o " is not a function"])

\* A match that evaluates both branches of a complete pattern and keeps the
\* result of the variant's.
OptionMatchBoth(this, matcher, id) ==
  IF IsFunction(matcher.some) /\ IsFunction(matcher.none)
  THEN LET s == Fn1Call(matcher.some, this.data, id \o ".fn")
           n == Fn0Call(matcher.none) IN
       Done(IF OptionIsSome(this) THEN s ELSE n,
            <<Invoked(matcher.some, <<this.data>>),
              Invoked(matcher.none, <<>>)>>)
  ELSE Done(NotAFunction("matcher"), <<>>)

OptionMatch(this, matcher, id) ==
  IF OptionIsSome(this)
  THEN IF IsFunction(matcher.some)
       THEN Done(Fn1Call(matcher.some, this.data, id \o ".fn"),
                 <<Invoked(matcher.some, <<this.data>>)>>)
       ELSE Done(NotAFunction("matcher.some"), <<>>)
  ELSE IF IsFunction(matcher.none)
       THEN Done(Fn0Call(matcher.none), <<Invoked(matcher.none, <<>>)>>)
       ELSE Done(NotAFunction("matcher.none"), <<>>)

\* An unwrapOrElse that evaluates its default before it tests the variant.
OptionUnwrapOrElseEager(this, defaultValue) ==
  LET c == Fn0Call(defaultValue) IN
  Done(IF c.threw \/ OptionIsNone(this) THEN c ELSE Return(this.data),
       <<Invoked(defaultValue, <<>>)>>)

OptionUnwrapOrElse(this, defaultValue) ==
  IF OptionIsSome(this) THEN Done(Return(this.data), <<>>)
  ELSE Done(Fn0Call(defaultValue), <<Invoked(defaultValue, <<>>)>>)

\* A map that wraps the payload field whatever the variant.
OptionMapUnchecked(this, mapper, id) ==
  LET c == Fn1Call(mapper, this.data, id \o ".fn") IN
  Done(IF c.threw THEN c ELSE Return(OptionSome(c.val, id)),
       <<Invoked(mapper, <<this.data>>)>>)

\* A map that returns a new None container instead of Option.none.
OptionMapNewNone(this, mapper, id) ==
  IF OptionIsSome(this)
  THEN LET c == Fn1Call(mapper, this.data, id \o ".fn") IN
       Done(IF c.threw THEN c ELSE Return(OptionSome(c.val, id)),
            <<Invoked(mapper, <<this.data>>)>>)
  ELSE Done(Return(OptionNew("None", Undefined, id)), <<>>)

\* A map that applies its mapper twice.
OptionMapTwice(this, mapper, id) ==
  IF OptionIsSome(this)
  THEN LET b == Fn1Call(mapper, this.data, id \o ".fn")
           c == IF b.threw THEN b ELSE Fn1Call(mapper, b.val, id \o ".fn") IN
       Done(IF c.threw THEN c ELSE Return(OptionSome(c.val, id)),
            <<Invoked(mapper, <<this.data>>)>>)
  ELSE Done(Return(OptionNone), <<>>)

OptionMap(this, mapper, id) ==
  IF OptionIsSome(this)
  THEN LET c == Fn1Call(mapper, this.data, id \o ".fn") IN
       Done(IF c.threw THEN c ELSE Return(OptionSome(c.val, id)),
            <<Invoked(mapper, <<this.data>>)>>)
  ELSE Done(Return(OptionNone), <<>>)

OptionMapOr(this, defaultValue, mapper, id) ==
  IF OptionIsSome(this)
  THEN Done(Fn1Call(mapper, this.data, id \o ".fn"),
            <<Invoked(mapper, <<this.data>>)>>)
  ELSE Done(Return(defaultValue), <<>>)

OptionMapOrElse(this, defaultMapper, mapper, id) ==
  IF OptionIsSome(this)
  THEN Done(Fn1Call(mapper, this.data, id \o ".fn"),
            <<Invoked(mapper, <<this.data>>)>>)
  ELSE Done(Fn0Call(defaultMapper), <<Invoked(defaultMapper, <<>>)>>)

OptionAnd(this, other) ==
  IF OptionIsSome(this) THEN Return(other) ELSE Return(OptionNone)

\* An andThen that turns an exception of its mapper into None.
OptionAndThenContained(this, mapper, id) ==
  IF OptionIsSome(this)
  THEN LET c == Fn1Call(mapper, this.data, id \o ".fn") IN
       Done(IF c.threw THEN Return(OptionNone) ELSE c,
            <<Invoked(mapper, <<this.data>>)>>)
  ELSE Done(Return(OptionNone), <<>>)

OptionAndThen(this, mapper, id) ==
  IF OptionIsSome(this)
  THEN Done(Fn1Call(mapper, this.data, id \o ".fn"),
            <<Invoked(mapper, <<this.data>>)>>)
  ELSE Done(Return(OptionNone), <<>>)

OptionFlatMap(this, mapper, id) ==
  IF OptionIsSome(this)
  THEN Done(Fn1Call(mapper, this.data, id \o ".fn"),
            <<Invoked(mapper, <<this.data>>)>>)
  ELSE Done(Return(OptionNone), <<>>)

\* A filter that clears the receiver in place when the predicate fails.
OptionFilterInPlace(this, predicate, id) ==
  LET c == OptionIsSomeAnd(this, predicate, id) IN
  IF c.threw THEN c
  ELSE Done(Return(IF Truthy(c.val) THEN this
                   ELSE [this EXCEPT !.kind = "None", !.data = Undefined]),
            c.invoked)

OptionFilter(this, predicate, id) ==
  LET c == OptionIsSomeAnd(this, predicate, id) IN
  IF c.threw THEN c
  ELSE Done(Return(IF Truthy(c.val) THEN this ELSE OptionNone), c.invoked)

\* An or that prefers its argument.
OptionOrSwapped(this, other) ==
  IF OptionIsSome(other) THEN Return(other) ELSE Return(this)

OptionOr(this, other) ==
  IF OptionIsSome(this) THEN Return(this) ELSE Return(other)

OptionOrElse(this, mapper) ==
  IF OptionIsSome(this) THEN Done(Return(this), <<>>)
  ELSE Done(Fn0Call(mapper), <<Invoked(mapper, <<>>)>>)

\* A flatten that removes one level of nesting only.
OptionFlattenOnce(this) ==
  IF OptionIsSome(this) /\ this.data.t = "opt"
  THEN Return(this.data)
  ELSE Return(this)

RECURSIVE OptionFlatten(_)
OptionFlatten(this) ==
  IF OptionIsSome(this) /\ this.data.t = "opt"
  THEN OptionFlatten(this.data)
  ELSE Return(this)

(***************************************************************************)
(* Result: the operations that take a function or another container        *)
(***************************************************************************)
ResultMap(this, mapper, id) ==
  IF ResultIsOk(this)
  THEN LET c == Fn1Call(mapper, this.data, id \o ".fn") IN
       Done(IF c.threw THEN c ELSE Return(ResultOk(c.val, id)),
            <<Invoked(mapper, <<this.data>>)>>)
  ELSE Done(Return(ResultErr(this.data, id)), <<>>)

ResultMapOr(this, defaultValue, mapper, id) ==
  IF ResultIsOk(this)
  THEN Done(Fn1Call(mapper, this.data, id \o ".fn"),
            <<Invoked(mapper, <<this.data>>)>>)
  ELSE Done(Return(defaultValue), <<>>)

ResultMapOrElse(this, defaultValue, mapper, id) ==
  IF ResultIsOk(this)
  THEN Done(Fn1Call(mapper, this.data, id \o ".fn"),
            <<Invoked(mapper, <<this.data>>)>>)
  ELSE Done(Fn0Call(defaultValue), <<Invoked(defaultValue, <<>>)>>)

\* A mapErr that maps the payload of an Ok as well.
ResultMapErrAny(this, mapper, id) ==
  LET c == Fn1Call(mapper, this.data, id \o ".fn") IN
  Done(IF c.threw THEN c
       ELSE Return(ResultNew(this.kind, c.val, id)),
       <<Invoked(mapper, <<this.data>>)>>)

ResultMapErr(this, mapper, id) ==
  IF ResultIsErr(this)
  THEN LET c == Fn1Call(mapper, this.data, id \o ".fn") IN
       Done(IF c.threw THEN c ELSE Return(ResultErr(c.val, id)),
            <<Invoked(mapper, <<this.data>>)>>)
  ELSE Done(Return(ResultOk(this.data, id)), <<>>)

ResultMatch(this, matcher, id) ==
  IF ResultIsOk(this)
  THEN IF IsFunction(matcher.ok)
       THEN Done(Fn1Call(matcher.ok, this.data, id \o ".fn"),
                 <<Invoked(matcher.ok, <<this.data>>)>>)
       ELSE Done(NotAFunction("matcher.ok"), <<>>)
  ELSE IF IsFunction(matcher.err)
       THEN Done(Fn1Call(matcher.err, this.data, id \o ".fn"),
                 <<Invoked(matcher.err, <<this.data>>)>>)
       ELSE Done(NotAFunction("matcher.err"), <<>>)

ResultAnd(this, other, id) ==
  IF ResultIsOk(this) THEN Return(other)
  ELSE Return(ResultErr(this.data, id))

ResultAndThen(this, mapper, id) ==
  IF ResultIsOk(this)
  THEN Done(Fn1Call(mapper, this.data, id \o ".fn"),
            <<Invoked(mapper, <<this.data>>)>>)
  ELSE Done(Return(ResultErr(this.data, id)), <<>>)

ResultFlatMap(this, mapper, id) ==
  IF ResultIsOk(this)
  THEN Done(Fn1Call(mapper, this.data, id \o ".fn"),
            <<Invoked(mapper, <<this.data>>)>>)
  ELSE Done(Return(ResultErr(this.data, id)), <<>>)

ResultOr(this, other, id) ==
  IF ResultIsErr(this) THEN Return(other)
  ELSE Return(ResultOk(this.data, id))

ResultOrElse(this, mapper, id) ==
  IF ResultIsErr(this)
  THEN Done(Fn1Call(mapper, this.data, id \o ".fn"),
            <<Invoked(mapper, <<this.data>>)>>)
  ELSE Done(Return(ResultOk(this.data, id)), <<>>)

\* A flatten that removes one level of nesting only.
ResultFlattenOnce(this) ==
  IF this.data.t = "res" THEN Return(this.data) ELSE Return(this)

\* if (this.data instanceof Result) return this.data.flatten(); whatever
\* the receiver's variant.
RECURSIVE ResultFlatten(_)
ResultFlatten(this) ==
  IF this.data.t = "res" THEN ResultFlatten(this.data) ELSE Return(this)

(***************************************************************************)
(* The containers constructed so far                                       *)
(***************************************************************************)
HeapOptions == {c \in heap : c.t = "opt"}
HeapResults == {c \in heap : c.t = "res"}

\* The id of the next container a call allocates.
Fresh == "o" \o ToString(Cardinality(heap))

\* A container and the containers nested in its payload.
RECURSIVE ContainersOf(_)
ContainersOf(v) ==
  IF v.t \in {"opt", "res"} THEN {v} \cup ContainersOf(v.data) ELSE {}

\* The containers after a call: those before it and those it returned.
Stored(ret) == IF ret.threw THEN heap ELSE heap \cup ContainersOf(ret.val)

\* The functions and patterns calls are made with.
OptionThunks == {[k |-> "return", val |-> c] : c \in HeapOptions} \cup Raising
OptionFns ==
  {[k |-> "some"], [k |-> "none"]} \cup Raising
    \cup {[k |-> "const", val |-> c] : c \in HeapOptions}
ResultFns ==
  {[k |-> "ok"], [k |-> "err"]} \cup Raising
    \cup {[k |-> "const", val |-> c] : c \in HeapResults}
OptionPatterns ==
  {[some |-> s, none |-> n] :
     s \in Fn1s \cup {Undefined},
     n \in {[k |-> "return", val |-> Num(0)],
            [k |-> "throw", val |-> Error("e2")], Undefined}}
ResultPatterns ==
  {[ok |-> a, err |-> b] :
     a \in Fn1s \cup {Undefined},
     b \in {[k |-> "const", val |-> Num(0)],
            [k |-> "throw", val |-> Error("e2")], Undefined}}

(***************************************************************************)
(* Actions                                                                 *)
(***************************************************************************)
Init ==
  /\ ios = <<>>
  /\ made = <<>>
  /\ runs = <<>>
  /\ calls = [f \in Fns |-> 0]
  /\ call = NoCall
  /\ heap = {OptionNone}

\* Constructions: a container is added and nothing runs.
From(value) ==
  /\ Len(ios) < MaxIOs
  /\ ios' = Append(ios, IOfrom(value))
  /\ made' = Append(made, [op |-> "from", arg |-> value])
  /\ UNCHANGED <<runs, calls, call, heap>>

FromIO(i) ==
  /\ Len(ios) < MaxIOs
  /\ ios' = Append(ios, IOfrom(ios[i]))
  /\ made' = Append(made, [op |-> "from", arg |-> ios[i], of |-> i])
  /\ UNCHANGED <<runs, calls, call, heap>>

\* A fromPromise that invokes the producer while constructing.
FromPromiseEager(p) ==
  /\ Len(ios) < MaxIOs
  /\ ios' = Append(ios, IOfromPromise(p))
  /\ made' = Append(made, [op |-> "fromPromise", fn |-> p])
  /\ calls' = [calls EXCEPT ![p] = @ + 1]
  /\ UNCHANGED <<runs, call, heap>>

FromPromise(p) ==
  /\ Len(ios) < MaxIOs
  /\ ios' = Append(ios, IOfromPromise(p))
  /\ made' = Append(made, [op |-> "fromPromise", fn |-> p])
  /\ UNCHANGED <<runs, calls, call, heap>>

Catch(i, h) ==
  /\ Len(ios) < MaxIOs
  /\ ios' = Append(ios, IOcatch(ios[i], h))
  /\ made' = Append(made, [op |-> "catch", fn |-> h, of |-> i])
  /\ UNCHANGED <<runs, calls, call, heap>>

Chain(i, m) ==
  /\ Len(ios) < MaxIOs
  /\ ios' = Append(ios, IOchain(ios[i], m))
  /\ made' = Append(made, [op |-> "chain", fn |-> m, of |-> i])
  /\ UNCHANGED <<runs, calls, call, heap>>

\* A run that hands out the future of an earlier run of the same container.
RunCached(i) ==
  /\ Len(runs) < MaxRuns
  /\ IF \E k \in 1..Len(runs) : runs[k].io = i
     THEN /\ runs' = Append(runs, runs[CHOOSE k \in 1..Len(runs) : runs[k].io = i])
          /\ calls' = calls
     ELSE LET inv == IOrun(ios[i]) IN
            /\ runs' = Append(runs, Execution(i, inv))
            /\ calls' = Bump(calls, inv.events)
  /\ UNCHANGED <<ios, made, call, heap>>

\* run(): the effect is invoked, synchronously.
Run(i) ==
  /\ Len(runs) < MaxRuns
  /\ LET inv == IOrun(ios[i]) IN
       /\ runs' = Append(runs, Execution(i, inv))
       /\ calls' = Bump(calls, inv.events)
  /\ UNCHANGED <<ios, made, call, heap>>

\* A settling that reaches every execution waiting on a future, as if the
\* executions shared one future.
SettleShared(k, fut) ==
  /\ runs[k].fut.st = "pending"
  /\ runs' = [j \in DOMAIN runs |->
                IF j = k
                THEN [runs[j] EXCEPT !.fut = fut,
                                     !.log = Append(@, SettleEv(fut))]
                ELSE IF runs[j].fut.st = "pending"
                     THEN [runs[j] EXCEPT !.fut = fut]
                     ELSE runs[j]]
  /\ UNCHANGED <<ios, made, calls, call, heap>>

\* The environment settles the future a producer returned.
Settle(k, fut) ==
  /\ runs[k].fut.st = "pending"
  /\ runs' = [runs EXCEPT ![k].fut = fut,
                          ![k].log = Append(@, SettleEv(fut))]
  /\ UNCHANGED <<ios, made, calls, call, heap>>

\* A microtask: the next reaction registered on a settled future runs.
React(k) ==
  /\ runs[k].fut.st \in {"resolved", "rejected"}
  /\ runs[k].stack # <<>>
  /\ LET r == runs[k]
         x == Reaction(Head(r.stack), r.fut, Len(r.stack) - 1)
     IN /\ runs' = [runs EXCEPT ![k].stack = x.frames \o Tail(r.stack),
                                ![k].fut = x.fut,
                                ![k].log = r.log \o x.events]
        /\ calls' = Bump(calls, x.events)
  /\ UNCHANGED <<ios, made, call, heap>>

Next ==
  \/ \E v \in Values : From(v)
  \/ \E i \in 1..Len(ios) : FromIO(i)
  \/ \E p \in Producers : FromPromise(p)
  \/ \E i \in 1..Len(ios), h \in Handlers : Catch(i, h)
  \/ \E i \in 1..Len(ios), m \in Mappers : Chain(i, m)
  \/ \E i \in 1..Len(ios) : Run(i)
  \/ \E k \in 1..Len(runs), v \in Values : Settle(k, Resolved(v))
  \/ \E k \in 1..Len(runs), e \in Errors : Settle(k, Rejected(e))
  \/ \E k \in 1..Len(runs) : React(k)

Spec == Init /\ [][Next]_vars

\* IO with one execution at a time looked at: executions share nothing, so
\* whether one settles is a matter of that execution alone.
FairNext ==
  \/ \E v \in Values : From(v)
  \/ \E i \in 1..Len(ios) : FromIO(i)
  \/ \E p \in Producers : FromPromise(p)
  \/ \E i \in 1..Len(ios), h \in Handlers : Catch(i, h)
  \/ \E i \in 1..Len(ios), m \in Mappers : Chain(i, m)
  \/ \E i \in 1..Len(ios) : Len(runs) < MaxFairRuns /\ Run(i)
  \/ \E k \in 1..Len(runs), v \in Values : Settle(k, Resolved(v))
  \/ \E k \in 1..Len(runs), e \in Errors : Settle(k, Rejected(e))
  \/ \E k \in 1..Len(runs) : React(k)

\* With what JavaScript guarantees of a settled future (the reactions
\* registered on it do run) and with every producer future that is awaited
\* settling in the end.
FairSpec ==
  /\ Init /\ [][FairNext]_vars
  /\ \A k \in 1..MaxRuns :
       /\ WF_vars(k \in 1..Len(runs) /\ React(k))
       /\ WF_vars(/\ k \in 1..Len(runs)
                  /\ \/ \E v \in Values : Settle(k, Resolved(v))
                     \/ \E e \in Errors : Settle(k, Rejected(e)))

(***************************************************************************)
(* Actions on Option and Result: one library call on containers            *)
(* constructed so far, whose result joins them                            *)
(***************************************************************************)
CallOptionNone ==
  LET ret == Return(OptionNone) IN
  /\ call.op = "none"
  /\ Cardinality(Stored(ret)) <= MaxObjs
  /\ call' = Called("Option.none", Undefined, <<>>, ret)
  /\ heap' = Stored(ret)
  /\ UNCHANGED <<ios, made, runs, calls>>

CallOptionSome(value) ==
  LET ret == Return(OptionSome(value, Fresh)) IN
  /\ call.op = "none"
  /\ Cardinality(Stored(ret)) <= MaxObjs
  /\ call' = Called("Option.some", Undefined, <<value>>, ret)
  /\ heap' = Stored(ret)
  /\ UNCHANGED <<ios, made, runs, calls>>

CallOptionFromNullable(value) ==
  LET ret == Return(OptionFromNullable(value, Fresh)) IN
  /\ call.op = "none"
  /\ Cardinality(Stored(ret)) <= MaxObjs
  /\ call' = Called("Option.fromNullable", Undefined, <<value>>, ret)
  /\ heap' = Stored(ret)
  /\ UNCHANGED <<ios, made, runs, calls>>

CallOptionTryFrom(fn) ==
  LET ret == OptionTryFrom(fn, Fresh) IN
  /\ call.op = "none"
  /\ Cardinality(Stored(ret)) <= MaxObjs
  /\ call' = Called("Option.tryFrom", Undefined, <<fn>>, ret)
  /\ heap' = Stored(ret)
  /\ UNCHANGED <<ios, made, runs, calls>>

CallOptionTryFromNullable(fn) ==
  LET ret == OptionTryFromNullable(fn, Fresh) IN
  /\ call.op = "none"
  /\ Cardinality(Stored(ret)) <= MaxObjs
  /\ call' = Called("Option.tryFromNullable", Undefined, <<fn>>, ret)
  /\ heap' = Stored(ret)
  /\ UNCHANGED <<ios, made, runs, calls>>

CallOptionIsSomeAnd(o, predicate) ==
  LET ret == OptionIsSomeAnd(o, predicate, Fresh) IN
  /\ call.op = "none"
  /\ Cardinality(Stored(ret)) <= MaxObjs
  /\ call' = Called("Option.isSomeAnd", o, <<predicate>>, ret)
  /\ heap' = Stored(ret)
  /\ UNCHANGED <<ios, made, runs, calls>>

CallOptionOkOr(o, error) ==
  LET ret == OptionOkOr(o, error, Fresh) IN
  /\ call.op = "none"
  /\ Cardinality(Stored(ret)) <= MaxObjs
  /\ call' = Called("Option.okOr", o, <<error>>, ret)
  /\ heap' = Stored(ret)
  /\ UNCHANGED <<ios, made, runs, calls>>

CallOptionOkOrElse(o, error) ==
  LET ret == OptionOkOrElse(o, error, Fresh) IN
  /\ call.op = "none"
  /\ Cardinality(Stored(ret)) <= MaxObjs
  /\ call' = Called("Option.okOrElse", o, <<error>>, ret)
  /\ heap' = Stored(ret)
  /\ UNCHANGED <<ios, made, runs, calls>>

CallOptionMatch(o, matcher) ==
  LET ret == OptionMatch(o, matcher, Fresh) IN
  /\ call.op = "none"
  /\ Cardinality(Stored(ret)) <= MaxObjs
  /\ call' = Called("Option.match", o, <<matcher>>, ret)
  /\ heap' = Stored(ret)
  /\ UNCHANGED <<ios, made, runs, calls>>

CallOptionExpect(o, message) ==
  LET ret == OptionExpect(o, message) IN
  /\ call.op = "none"
  /\ Cardinality(Stored(ret)) <= MaxObjs
  /\ call' = Called("Option.expect", o, <<message>>, ret)
  /\ heap' = Stored(ret)
  /\ UNCHANGED <<ios, made, runs, calls>>

CallOptionUnwrap(o) ==
  LET ret == OptionUnwrap(o) IN
  /\ call.op = "none"
  /\ Cardinality(Stored(ret)) <= MaxObjs
  /\ call' = Called("Option.unwrap", o, <<>>, ret)
  /\ heap' = Stored(ret)
  /\ UNCHANGED <<ios, made, runs, calls>>

CallOptionUnwrapOrElse(o, defaultValue) ==
  LET ret == OptionUnwrapOrElse(o, defaultValue) IN
  /\ call.op = "none"
  /\ Cardinality(Stored(ret)) <= MaxObjs
  /\ call' = Called("Option.unwrapOrElse", o, <<defaultValue>>, ret)
  /\ heap' = Stored(ret)
  /\ UNCHANGED <<ios, made, runs, calls>>

CallOptionMap(o, mapper) ==
  LET ret == OptionMap(o, mapper, Fresh) IN
  /\ call.op = "none"
  /\ Cardinality(Stored(ret)) <= MaxObjs
  /\ call' = Called("Option.map", o, <<mapper>>, ret)
  /\ heap' = Stored(ret)
  /\ UNCHANGED <<ios, made, runs, calls>>

CallOptionMapOr(o, defaultValue, mapper) ==
  LET ret == OptionMapOr(o, defaultValue, mapper, Fresh) IN
  /\ call.op = "none"
  /\ Cardinality(Stored(ret)) <= MaxObjs
  /\ call' = Called("Option.mapOr", o, <<defaultValue, mapper>>, ret)
  /\ heap' = Stored(ret)
  /\ UNCHANGED <<ios, made, runs, calls>>

CallOptionMapOrElse(o, defaultMapper, mapper) ==
  LET ret == OptionMapOrElse(o, defaultMapper, mapper, Fresh) IN
  /\ call.op = "none"
  /\ Cardinality(Stored(ret)) <= MaxObjs
  /\ call' = Called("Option.mapOrElse", o, <<defaultMapper, mapper>>, ret)
  /\ heap' = Stored(ret)
  /\ UNCHANGED <<ios, made, runs, calls>>

CallOptionAnd(o, other) ==
  LET ret == OptionAnd(o, other) IN
  /\ call.op = "none"
  /\ Cardinality(Stored(ret)) <= MaxObjs
  /\ call' = Called("Option.and", o, <<other>>, ret)
  /\ heap' = Stored(ret)
  /\ UNCHANGED <<ios, made, runs, calls>>

CallOptionAndThen(o, mapper) ==
  LET ret == OptionAndThen(o, mapper, Fresh) IN
  /\ call.op = "none"
  /\ Cardinality(Stored(ret)) <= MaxObjs
  /\ call' = Called("Option.andThen", o, <<mapper>>, ret)
  /\ heap' = Stored(ret)
  /\ UNCHANGED <<ios, made, runs, calls>>

CallOptionFlatMap(o, mapper) ==
  LET ret == OptionFlatMap(o, mapper, Fresh) IN
  /\ call.op = "none"
  /\ Cardinality(Stored(ret)) <= MaxObjs
  /\ call' = Called("Option.flatMap", o, <<mapper>>, ret)
  /\ heap' = Stored(ret)
  /\ UNCHANGED <<ios, made, runs, calls>>

CallOptionFilter(o, predicate) ==
  LET ret == OptionFilter(o, predicate, Fresh) IN
  /\ call.op = "none"
  /\ Cardinality(Stored(ret)) <= MaxObjs
  /\ call' = Called("Option.filter", o, <<predicate>>, ret)
  /\ heap' = Stored(ret)
  /\ UNCHANGED <<ios, made, runs, calls>>

CallOptionOr(o, other) ==
  LET ret == OptionOr(o, other) IN
  /\ call.op = "none"
  /\ Cardinality(Stored(ret)) <= MaxObjs
  /\ call' = Called("Option.or", o, <<other>>, ret)
  /\ heap' = Stored(ret)
  /\ UNCHANGED <<ios, made, runs, calls>>

CallOptionOrElse(o, mapper) ==
  LET ret == OptionOrElse(o, mapper) IN
  /\ call.op = "none"
  /\ Cardinality(Stored(ret)) <= MaxObjs
  /\ call' = Called("Option.orElse", o, <<mapper>>, ret)
  /\ heap' = Stored(ret)
  /\ UNCHANGED <<ios, made, runs, calls>>

CallOptionFlatten(o) ==
  LET ret == OptionFlatten(o) IN
  /\ call.op = "none"
  /\ Cardinality(Stored(ret)) <= MaxObjs
  /\ call' = Called("Option.flatten", o, <<>>, ret)
  /\ heap' = Stored(ret)
  /\ UNCHANGED <<ios, made, runs, calls>>

CallResultOk(value) ==
  LET ret == Return(ResultOk(value, Fresh)) IN
  /\ call.op = "none"
  /\ Cardinality(Stored(ret)) <= MaxObjs
  /\ call' = Called("Result.ok", Undefined, <<value>>, ret)
  /\ heap' = Stored(ret)
  /\ UNCHANGED <<ios, made, runs, calls>>

CallResultErr(error) ==
  LET ret == Return(ResultErr(error, Fresh)) IN
  /\ call.op = "none"
  /\ Cardinality(Stored(ret)) <= MaxObjs
  /\ call' = Called("Result.err", Undefined, <<error>>, ret)
  /\ heap' = Stored(ret)
  /\ UNCHANGED <<ios, made, runs, calls>>

CallResultTryFrom(fn, error) ==
  LET ret == ResultTryFrom(fn, error, Fresh) IN
  /\ call.op = "none"
  /\ Cardinality(Stored(ret)) <= MaxObjs
  /\ call' = Called("Result.tryFrom", Undefined, <<fn, error>>, ret)
  /\ heap' = Stored(ret)
  /\ UNCHANGED <<ios, made, runs, calls>>

CallResultFromNullable(value, error) ==
  LET ret == Return(ResultFromNullable(value, error, Fresh)) IN
  /\ call.op = "none"
  /\ Cardinality(Stored(ret)) <= MaxObjs
  /\ call' = Called("Result.fromNullable", Undefined, <<value, error>>, ret)
  /\ heap' = Stored(ret)
  /\ UNCHANGED <<ios, made, runs, calls>>

CallResultTryFromNullable(fn, error) ==
  LET ret == ResultTryFromNullable(fn, error, Fresh) IN
  /\ call.op = "none"
  /\ Cardinality(Stored(ret)) <= MaxObjs
  /\ call' = Called("Result.tryFromNullable", Undefined, <<fn, error>>, ret)
  /\ heap' = Stored(ret)
  /\ UNCHANGED <<ios, made, runs, calls>>

CallResultMap(r, mapper) ==
  LET ret == ResultMap(r, mapper, Fresh) IN
  /\ call.op = "none"
  /\ Cardinality(Stored(ret)) <= MaxObjs
  /\ call' = Called("Result.map", r, <<mapper>>, ret)
  /\ heap' = Stored(ret)
  /\ UNCHANGED <<ios, made, runs, calls>>

CallResultMapOr(r, defaultValue, mapper) ==
  LET ret == ResultMapOr(r, defaultValue, mapper, Fresh) IN
  /\ call.op = "none"
  /\ Cardinality(Stored(ret)) <= MaxObjs
  /\ call' = Called("Result.mapOr", r, <<defaultValue, mapper>>, ret)
  /\ heap' = Stored(ret)
  /\ UNCHANGED <<ios, made, runs, calls>>

CallResultMapOrElse(r, defaultValue, mapper) ==
  LET ret == ResultMapOrElse(r, defaultValue, mapper, Fresh) IN
  /\ call.op = "none"
  /\ Cardinality(Stored(ret)) <= MaxObjs
  /\ call' = Called("Result.mapOrElse", r, <<defaultValue, mapper>>, ret)
  /\ heap' = Stored(ret)
  /\ UNCHANGED <<ios, made, runs, calls>>

CallResultMapErr(r, mapper) ==
  LET ret == ResultMapErr(r, mapper, Fresh) IN
  /\ call.op = "none"
  /\ Cardinality(Stored(ret)) <= MaxObjs
  /\ call' = Called("Result.mapErr", r, <<mapper>>, ret)
  /\ heap' = Stored(ret)
  /\ UNCHANGED <<ios, made, runs, calls>>

CallResultMatch(r, matcher) ==
  LET ret == ResultMatch(r, matcher, Fresh) IN
  /\ call.op = "none"
  /\ Cardinality(Stored(ret)) <= MaxObjs
  /\ call' = Called("Result.match", r, <<matcher>>, ret)
  /\ heap' = Stored(ret)
  /\ UNCHANGED <<ios, made, runs, calls>>

CallResultExpect(r, message) ==
  LET ret == ResultExpect(r, message) IN
  /\ call.op = "none"
  /\ Cardinality(Stored(ret)) <= MaxObjs
  /\ call' = Called("Result.expect", r, <<message>>, ret)
  /\ heap' = Stored(ret)
  /\ UNCHANGED <<ios, made, runs, calls>>

CallResultUnwrap(r) ==
  LET ret == ResultUnwrap(r) IN
  /\ call.op = "none"
  /\ Cardinality(Stored(ret)) <= MaxObjs
  /\ call' = Called("Result.unwrap", r, <<>>, ret)
  /\ heap' = Stored(ret)
  /\ UNCHANGED <<ios, made, runs, calls>>

CallResultExpectErr(r, message) ==
  LET ret == ResultExpectErr(r, message) IN
  /\ call.op = "none"
  /\ Cardinality(Stored(ret)) <= MaxObjs
  /\ call' = Called("Result.expectErr", r, <<message>>, ret)
  /\ heap' = Stored(ret)
  /\ UNCHANGED <<ios, made, runs, calls>>

CallResultUnwrapErr(r) ==
  LET ret == ResultUnwrapErr(r) IN
  /\ call.op = "none"
  /\ Cardinality(Stored(ret)) <= MaxObjs
  /\ call' = Called("Result.unwrapErr", r, <<>>, ret)
  /\ heap' = Stored(ret)
  /\ UNCHANGED <<ios, made, runs, calls>>

CallResultAnd(r, other) ==
  LET ret == ResultAnd(r, other, Fresh) IN
  /\ call.op = "none"
  /\ Cardinality(Stored(ret)) <= MaxObjs
  /\ call' = Called("Result.and", r, <<other>>, ret)
  /\ heap' = Stored(ret)
  /\ UNCHANGED <<ios, made, runs, calls>>

CallResultAndThen(r, mapper) ==
  LET ret == ResultAndThen(r, mapper, Fresh) IN
  /\ call.op = "none"
  /\ Cardinality(Stored(ret)) <= MaxObjs
  /\ call' = Called("Result.andThen", r, <<mapper>>, ret)
  /\ heap' = Stored(ret)
  /\ UNCHANGED <<ios, made, runs, calls>>

CallResultFlatMap(r, mapper) ==
  LET ret == ResultFlatMap(r, mapper, Fresh) IN
  /\ call.op = "none"
  /\ Cardinality(Stored(ret)) <= MaxObjs
  /\ call' = Called("Result.flatMap", r, <<mapper>>, ret)
  /\ heap' = Stored(ret)
  /\ UNCHANGED <<ios, made, runs, calls>>

CallResultOr(r, other) ==
  LET ret == ResultOr(r, other, Fresh) IN
  /\ call.op = "none"
  /\ Cardinality(Stored(ret)) <= MaxObjs
  /\ call' = Called("Result.or", r, <<other>>, ret)
  /\ heap' = Stored(ret)
  /\ UNCHANGED <<ios, made, runs, calls>>

CallResultOrElse(r, mapper) ==
  LET ret == ResultOrElse(r, mapper, Fresh) IN
  /\ call.op = "none"
  /\ Cardinality(Stored(ret)) <= MaxObjs
  /\ call' = Called("Result.orElse", r, <<mapper>>, ret)
  /\ heap' = Stored(ret)
  /\ UNCHANGED <<ios, made, runs, calls>>

CallResultFlatten(r) ==
  LET ret == ResultFlatten(r) IN
  /\ call.op = "none"
  /\ Cardinality(Stored(ret)) <= MaxObjs
  /\ call' = Called("Result.flatten", r, <<>>, ret)
  /\ heap' = Stored(ret)
  /\ UNCHANGED <<ios, made, runs, calls>>

\* The call returns to its caller, which may make the next one.
Resume ==
  /\ call.op # "none"
  /\ call' = NoCall
  /\ UNCHANGED <<ios, made, runs, calls, heap>>

ValueNext ==
  \/ CallOptionNone
  \/ \E value \in Payloads \cup heap : CallOptionSome(value)
  \/ \E value \in Payloads \cup heap : CallOptionFromNullable(value)
  \/ \E fn \in Fn0s : CallOptionTryFrom(fn)
  \/ \E fn \in Fn0s : CallOptionTryFromNullable(fn)
  \/ \E o \in HeapOptions, predicate \in Predicates :
       CallOptionIsSomeAnd(o, predicate)
  \/ \E o \in HeapOptions, error \in Errors : CallOptionOkOr(o, error)
  \/ \E o \in HeapOptions, error \in Fn0s : CallOptionOkOrElse(o, error)
  \/ \E o \in HeapOptions, matcher \in OptionPatterns :
       CallOptionMatch(o, matcher)
  \/ \E o \in HeapOptions, message \in Messages : CallOptionExpect(o, message)
  \/ \E o \in HeapOptions : CallOptionUnwrap(o)
  \/ \E o \in HeapOptions, defaultValue \in Fn0s :
       CallOptionUnwrapOrElse(o, defaultValue)
  \/ \E o \in HeapOptions, mapper \in Fn1s : CallOptionMap(o, mapper)
  \/ \E o \in HeapOptions, defaultValue \in Values, mapper \in Fn1s :
       CallOptionMapOr(o, defaultValue, mapper)
  \/ \E o \in HeapOptions,
        defaultMapper \in Fn0s,
        mapper \in {[k |-> "id"]} \cup Raising :
       CallOptionMapOrElse(o, defaultMapper, mapper)
  \/ \E o \in HeapOptions, other \in HeapOptions : CallOptionAnd(o, other)
  \/ \E o \in HeapOptions, mapper \in OptionFns : CallOptionAndThen(o, mapper)
  \/ \E o \in HeapOptions, mapper \in OptionFns : CallOptionFlatMap(o, mapper)
  \/ \E o \in HeapOptions, predicate \in Predicates :
       CallOptionFilter(o, predicate)
  \/ \E o \in HeapOptions, other \in HeapOptions : CallOptionOr(o, other)
  \/ \E o \in HeapOptions, mapper \in OptionThunks :
       CallOptionOrElse(o, mapper)
  \/ \E o \in HeapOptions : CallOptionFlatten(o)
  \/ \E value \in Payloads \cup HeapResults : CallResultOk(value)
  \/ \E error \in Errors \cup HeapResults : CallResultErr(error)
  \/ \E fn \in Fn0s, error \in Errors : CallResultTryFrom(fn, error)
  \/ \E value \in Payloads, error \in Errors :
       CallResultFromNullable(value, error)
  \/ \E fn \in Fn0s, error \in Errors : CallResultTryFromNullable(fn, error)
  \/ \E r \in HeapResults, mapper \in Fn1s : CallResultMap(r, mapper)
  \/ \E r \in HeapResults, defaultValue \in Values, mapper \in Fn1s :
       CallResultMapOr(r, defaultValue, mapper)
  \/ \E r \in HeapResults,
        defaultValue \in Fn0s,
        mapper \in {[k |-> "id"]} \cup Raising :
       CallResultMapOrElse(r, defaultValue, mapper)
  \/ \E r \in HeapResults, mapper \in Fn1s : CallResultMapErr(r, mapper)
  \/ \E r \in HeapResults, matcher \in ResultPatterns :
       CallResultMatch(r, matcher)
  \/ \E r \in HeapResults, message \in Messages : CallResultExpect(r, message)
  \/ \E r \in HeapResults : CallResultUnwrap(r)
  \/ \E r \in HeapResults, message \in Messages :
       CallResultExpectErr(r, message)
  \/ \E r \in HeapResults : CallResultUnwrapErr(r)
  \/ \E r \in HeapResults, other \in HeapResults : CallResultAnd(r, other)
  \/ \E r \in HeapResults, mapper \in ResultFns : CallResultAndThen(r, mapper)
  \/ \E r \in HeapResults, mapper \in ResultFns : CallResultFlatMap(r, mapper)
  \/ \E r \in HeapResults, other \in HeapResults : CallResultOr(r, other)
  \/ \E r \in HeapResults, mapper \in ResultFns : CallResultOrElse(r, mapper)
  \/ \E r \in HeapResults : CallResultFlatten(r)
  \/ Resume

ValueSpec == Init /\ [][ValueNext]_vars

(***************************************************************************)
(* The library as a whole                                                  *)
(***************************************************************************)
\* IO on one side and Option and Result on the other share no state and
\* never call each other, so a program's use of both is a use of each: a
\* behaviour of LibSpec is a behaviour of Spec or one of ValueSpec.
LibNext ==
  \/ (heap = {OptionNone} /\ call = NoCall /\ Next)
  \/ (ios = <<>> /\ ValueNext)

LibSpec == Init /\ [][LibNext]_vars

(***************************************************************************)
(* Properties of IO, under Spec                                            *)
(***************************************************************************)
RunIds == 1..Len(runs)
EffectOf(k) == ios[runs[k].io].effect
LogOf(k) == runs[k].log

IsCall(e) == e.ev = "call"
IsMapperCall(e) == e.ev = "call" /\ e.fn \in Mappers
IsSettle(e, st) == e.ev = "settle" /\ e.st = st
\* A producer's invocation is over once its future settles, or at once when
\* it raises instead of returning one.
IsEnd(e) == e.ev = "settle" \/ (e.ev = "throw" /\ e.fn \in Producers)

\* The producer futures of an execution still pending after its j-th event.
InFlight(log, j) ==
  Cardinality({i \in 1..j : log[i].ev = "invoke"})
    - Cardinality({i \in 1..j : IsEnd(log[i])})

\* C1: in every execution, a mapper of chain is invoked only once the future
\* of the stage before it has resolved: the event just before the mapper's
\* invocation is that future resolving, no producer future is pending at
\* that moment, and at no time are two producer futures of one execution
\* pending together.
C1_ChainIsSequential ==
  \A k \in RunIds :
    \A j \in 1..Len(LogOf(k)) :
      /\ InFlight(LogOf(k), j) \in {0, 1}
      /\ IsMapperCall(LogOf(k)[j]) =>
           /\ j > 1
           /\ IsSettle(LogOf(k)[j - 1], "resolved")
           /\ InFlight(LogOf(k), j - 1) = 0

MapperCalls(log) == SelectSeq(log, IsMapperCall)

C1_Witness ==
  \E k \in RunIds :
    /\ Settled(runs[k])
    /\ Len(MapperCalls(LogOf(k))) = 2
    /\ \E j \in 1..Len(LogOf(k)) : LogOf(k)[j] = InvokeEv("p1")
    /\ \E j \in 1..Len(LogOf(k)) : LogOf(k)[j] = InvokeEv("p2")

\* The invocations made by the outermost reaction of an execution: the one
\* the container run registered.
TopCalls(log) == {j \in 1..Len(log) : log[j].ev = "call" /\ log[j].at = 0}
Min(S) == CHOOSE x \in S : \A y \in S : x <= y

\* In an execution of a.chain(m) or a.catch(h): the last event of a's part
\* of the record.
SelfEnd(log) == IF TopCalls(log) = {} THEN Len(log) ELSE Min(TopCalls(log)) - 1

\* An event by which a future is rejected with e: a producer future
\* rejecting, or a mapper or handler raising.
Rejects(ev, e) ==
  \/ IsSettle(ev, "rejected") /\ ev.val = e
  \/ ev.ev = "throw" /\ ev.val = e

\* A container built from a constant or a producer by chain alone, and its
\* mappers in stage order.
RECURSIVE IsChainOnly(_)
IsChainOnly(effect) ==
  \/ effect.k \in {"resolve", "producer"}
  \/ effect.k = "chain" /\ IsChainOnly(effect.this.effect)

RECURSIVE Stages(_)
Stages(effect) ==
  IF effect.k = "chain" THEN Append(Stages(effect.this.effect), effect.f)
  ELSE <<>>

Last(log) == log[Len(log)]

\* C2: in an execution of a.chain(m), a any container: m is invoked at most
\* once, and only with the value a resolved to; once run() has settled: if a
\* resolved to v, m was invoked with v and run() settled as the container
\* m(v) did; if a rejected with e, m was not invoked and run() rejected with
\* e.  In a chain of several stages a.chain(m1)...chain(mn) the mappers are
\* invoked in stage order, each at most once, a rejection ends the
\* execution's record (the first rejection is the outcome, no later mapper
\* is invoked), and run() resolves only to what the last stage resolved to,
\* every mapper having been invoked.
C2_ChainOutcome ==
  \A k \in RunIds :
    EffectOf(k).k = "chain" =>
      LET log == LogOf(k)
          T == TopCalls(log)
          ms == Stages(EffectOf(k))
          cs == SelectSeq(log, IsCall)
      IN /\ Cardinality(T) <= 1
         /\ \A j \in T :
              /\ log[j].fn = EffectOf(k).f
              /\ j > 1
              /\ IsSettle(log[j - 1], "resolved")
              /\ log[j].arg = log[j - 1].val
         /\ Settled(runs[k]) =>
              IF IsSettle(log[SelfEnd(log)], "resolved")
              THEN /\ Cardinality(T) = 1
                   /\ Len(log) > Min(T)
                   /\ Last(log).ev = "settle" =>
                        /\ Outcome(runs[k]).st = Last(log).st
                        /\ Outcome(runs[k]).val = Last(log).val
                   /\ Last(log).ev = "throw" =>
                        Outcome(runs[k]) = Rejected(Last(log).val)
              ELSE /\ T = {}
                   /\ Rejects(Last(log), Outcome(runs[k]).val)
                   /\ Outcome(runs[k]).st = "rejected"
         /\ IsChainOnly(EffectOf(k)) =>
              /\ Len(cs) <= Len(ms)
              /\ \A i \in 1..Len(cs) : cs[i].fn = ms[i]
              /\ \A j \in 1..Len(log) :
                   /\ IsCall(log[j]) =>
                        /\ j > 1
                        /\ IsSettle(log[j - 1], "resolved")
                        /\ log[j].arg = log[j - 1].val
                   /\ IsSettle(log[j], "rejected") =>
                        /\ j = Len(log)
                        /\ Finished(runs[k]) =>
                             Outcome(runs[k]) = Rejected(log[j].val)
              /\ (Finished(runs[k]) /\ IsSettle(Last(log), "resolved")) =>
                   /\ Len(cs) = Len(ms)
                   /\ Outcome(runs[k]) = Resolved(Last(log).val)
              /\ Outcome(runs[k]).st = "resolved" =>
                   IsSettle(Last(log), "resolved")

C2_Witness ==
  \E k \in RunIds :
    /\ IsChainOnly(EffectOf(k))
    /\ Len(Stages(EffectOf(k))) = 2
    /\ Outcome(runs[k]) = Rejected(Error("e2"))
    /\ Len(SelectSeq(LogOf(k), IsCall)) = 1

\* C3: in an execution of a.catch(h): the outermost reaction invokes nothing
\* but h, at most once, and only with the error a rejected with; if a
\* resolves to v, run() resolves to v and h is not invoked; if a rejects, h
\* is invoked once, the container it returns is executed (its producer is
\* invoked) and run() settles as that container does.
C3_CatchOutcome ==
  \A k \in RunIds :
    EffectOf(k).k = "catch" =>
      LET log == LogOf(k)
          T == TopCalls(log)
      IN /\ Cardinality(T) <= 1
         /\ \A j \in T :
              /\ log[j].fn = EffectOf(k).f
              /\ j > 1
              /\ Rejects(log[j - 1], log[j].arg)
         /\ Settled(runs[k]) =>
              IF IsSettle(log[SelfEnd(log)], "resolved")
              THEN /\ T = {}
                   /\ Outcome(runs[k]) = Resolved(log[SelfEnd(log)].val)
              ELSE /\ Cardinality(T) = 1
                   /\ Len(log) > Min(T)
                   /\ log[Min(T) + 1].ev \in {"invoke", "throw"}
                   /\ Last(log).ev = "settle" =>
                        /\ Outcome(runs[k]).st = Last(log).st
                        /\ Outcome(runs[k]).val = Last(log).val
                   /\ Last(log).ev = "throw" =>
                        Outcome(runs[k]) = Rejected(Last(log).val)

C3_Witness ==
  \E k \in RunIds :
    /\ EffectOf(k) = CatchEffect(IOfromPromise("p1"), "hProm")
    /\ Outcome(runs[k]) = Resolved(Num(1))
    /\ \E j \in TopCalls(LogOf(k)) : LogOf(k)[j].arg = Error("e1")

\* The invocations made by the reaction one layer below the outermost.
InnerCalls(log) == {j \in 1..Len(log) : log[j].ev = "call" /\ log[j].at = 1}

\* C4: in an execution of a.catch(h) in which h was invoked and the recovery
\* container then rejected with e2: run() rejects with e2 and h was invoked
\* once only; and when that catch is itself wrapped in a further catch, the
\* further handler is invoked, once, with e2.
C4_OneLayerOfRecovery ==
  \A k \in RunIds :
    EffectOf(k).k = "catch" =>
      LET log == LogOf(k)
          T == TopCalls(log)
          I == InnerCalls(log)
      IN /\ (T # {} /\ Finished(runs[k]) /\ IsSettle(Last(log), "rejected")) =>
              /\ Outcome(runs[k]) = Rejected(Last(log).val)
              /\ Cardinality(T) = 1
         /\ EffectOf(k).this.effect.k = "catch" =>
              \A i \in I : \A j \in (i + 1)..SelfEnd(log) :
                (IsSettle(log[j], "rejected") /\ Finished(runs[k])) =>
                  /\ Cardinality(I) = 1
                  /\ T = {j + 1}
                  /\ log[j + 1].fn = EffectOf(k).f
                  /\ log[j + 1].arg = log[j].val

C4_Witness ==
  \E k \in RunIds :
    /\ EffectOf(k).k = "catch"
    /\ EffectOf(k).this.effect.k = "catch"
    /\ InnerCalls(LogOf(k)) # {}
    /\ \E j \in TopCalls(LogOf(k)) :
         /\ LogOf(k)[j].arg = Error("e2")
         /\ LogOf(k)[Min(InnerCalls(LogOf(k)))].arg = Error("e1")
    /\ Outcome(runs[k]) = Resolved(Num(0))

\* The invocations of f recorded by the executions 1..k.
RECURSIVE Recorded(_, _)
Recorded(f, k) ==
  IF k = 0 THEN 0 ELSE Recorded(f, k - 1) + Count(LogOf(k), f)

\* C5: every invocation of a caller's producer, mapper or handler is made by
\* an execution run() started; while no run() has been called, whatever has
\* been constructed and composed, every invocation count is zero.
C5_NothingRunsBeforeRun ==
  /\ \A f \in Fns : calls[f] = Recorded(f, Len(runs))
  /\ runs = <<>> => \A f \in Fns : calls[f] = 0

C5_Witness ==
  /\ runs = <<>>
  /\ \E i, j, l \in 1..Len(ios) :
       /\ made[i].op = "fromPromise"
       /\ made[j].op = "chain"
       /\ made[l].op = "catch"
       /\ made[l].of = j
  /\ \A f \in Fns : calls[f] = 0

\* The producer a container's execution invokes first.
RECURSIVE Leaf(_)
Leaf(effect) ==
  IF effect.k \in {"chain", "catch"} THEN Leaf(effect.this.effect) ELSE effect

\* Producers that no mapper and no handler of the model hands out.
OwnProducers == {"p1", "pThrow"}

\* C6: each run() of a container made by fromPromise(p) invokes p exactly
\* once, whether the future resolves, rejects or is still pending; and a
\* producer is invoked in all exactly as many times as run() was called on
\* containers whose execution starts with it: nothing is cached, nothing is
\* retried.
C6_EveryRunInvokes ==
  /\ \A k \in RunIds :
       made[runs[k].io].op = "fromPromise" =>
         Count(LogOf(k), made[runs[k].io].fn) = 1
  /\ \A p \in OwnProducers :
       calls[p] =
         Cardinality({k \in RunIds : Leaf(EffectOf(k)) = ProducerEffect(p)})

C6_Witness ==
  \E k1, k2 \in RunIds :
    /\ k1 < k2
    /\ runs[k1].io = runs[k2].io
    /\ made[runs[k1].io].op = "fromPromise"
    /\ made[runs[k1].io].fn = "p1"
    /\ Outcome(runs[k1]).st = "rejected"
    /\ Outcome(runs[k2]).st = "resolved"
    /\ calls["p1"] = 2

\* C7: IO.from(c), c a container, has c's own producer: a run() of it begins
\* exactly as a run() of c does (c's producer invoked once) and never
\* settles to a container; IO.from(v), v not a container, resolves to v in
\* every run(), at once.
C7_FromSharesProducer ==
  \A j \in 1..Len(ios) :
    made[j].op = "from" =>
      IF made[j].arg.t = "io"
      THEN /\ ios[j].effect = made[j].arg.effect
           /\ \A k \in RunIds :
                runs[k].io = j =>
                  LET first == IOrun(made[j].arg).events
                  IN /\ Len(LogOf(k)) >= Len(first)
                     /\ SubSeq(LogOf(k), 1, Len(first)) = first
                     /\ Settled(runs[k]) => Outcome(runs[k]).val.t # "io"
      ELSE \A k \in RunIds :
             runs[k].io = j => Outcome(runs[k]) = Resolved(made[j].arg)

C7_Witness ==
  \E j \in 1..Len(ios), k \in RunIds :
    /\ made[j].op = "from"
    /\ made[j].arg = IOfromPromise("p1")
    /\ runs[k].io = j
    /\ Count(LogOf(k), "p1") = 1
    /\ Outcome(runs[k]) = Resolved(Num(1))

\* An execution with every reaction that can run now having run.
RECURSIVE Drain(_)
Drain(r) ==
  IF r.fut.st \in {"resolved", "rejected"} /\ r.stack # <<>>
  THEN LET x == Reaction(Head(r.stack), r.fut, Len(r.stack) - 1) IN
       Drain([r EXCEPT !.stack = x.frames \o Tail(r.stack),
                       !.fut = x.fut,
                       !.log = r.log \o x.events])
  ELSE r

\* The settlings of producer futures an execution recorded, in order: the
\* events that follow the invocation of a producer.
RECURSIVE ProducerSettles(_)
ProducerSettles(log) ==
  IF Len(log) < 2 THEN <<>>
  ELSE LET rest == ProducerSettles(SubSeq(log, 1, Len(log) - 1)) IN
       IF Last(log).ev = "settle"
            /\ log[Len(log) - 1].ev = "invoke"
            /\ log[Len(log) - 1].fn \in Producers
       THEN Append(rest, Last(log))
       ELSE rest

\* The execution r after these settlings, with nothing else going on.
RECURSIVE Alone(_, _)
Alone(r, settles) ==
  IF settles = <<>> THEN Drain(r)
  ELSE LET d == Drain(r)
           fut == [st |-> settles[1].st, p |-> "", val |-> settles[1].val]
       IN Alone([d EXCEPT !.fut = fut, !.log = Append(@, settles[1])],
                Tail(settles))

\* C27: executions are independent, however they interleave: every
\* invocation counted belongs to exactly one execution, every execution
\* begins by invoking its container's own effect, every mapper or handler
\* is invoked with the value or error recorded just before it in the same
\* execution, and every execution is, up to the reactions still to run,
\* exactly what run() of its container alone gives with the settlings of
\* that execution's own producer futures.
C27_ExecutionsIndependent ==
  /\ \A f \in Fns : calls[f] = Recorded(f, Len(runs))
  /\ \A k \in RunIds :
       LET log == LogOf(k)
           start == Execution(runs[k].io, IOrun(ios[runs[k].io])) IN
       /\ Len(log) >= Len(start.log)
       /\ SubSeq(log, 1, Len(start.log)) = start.log
       /\ \A j \in 1..Len(log) :
            IsCall(log[j]) =>
              /\ j > 1
              /\ IF log[j].fn \in Mappers
                 THEN IsSettle(log[j - 1], "resolved")
                        /\ log[j].arg = log[j - 1].val
                 ELSE Rejects(log[j - 1], log[j].arg)
       /\ Drain(runs[k]) = Alone(start, ProducerSettles(log))

\* Two executions of one chain over a producer: the second was started
\* after the first and has resolved, with its mapper given the value of
\* its own producer, while the first still waits for its producer.
C27_Witness ==
  \E k1, k2 \in RunIds :
    /\ k1 < k2
    /\ runs[k1].io = runs[k2].io
    /\ EffectOf(k1) = ChainEffect(IOfromPromise("p1"), "mInc")
    /\ LogOf(k1) = <<InvokeEv("p1")>>
    /\ Outcome(runs[k2]) = Resolved(Num(0))
    /\ LogOf(k2)[2] = SettleEv(Resolved(Num(1)))
    /\ LogOf(k2)[3] = CallEv("mInc", Num(1), 0)

\* Both executions have finished, differently.
C27_WitnessBoth ==
  \E k1, k2 \in RunIds :
    /\ k1 < k2
    /\ runs[k1].io = runs[k2].io
    /\ EffectOf(k1).k = "catch"
    /\ EffectOf(k1).this.effect.k = "chain"
    /\ Outcome(runs[k1]).st = "resolved"
    /\ Outcome(runs[k2]).st = "rejected"

\* The first invocation of a mapper or handler in an execution.
FirstCall(log) == Min({j \in 1..Len(log) : IsCall(log[j])} \cup {Len(log) + 1})

\* C28: a catch covers what is upstream of it only. In an execution of
\* a.catch(h).chain(m): the outermost reaction invokes m alone, no handler
\* is invoked once m has been, and if what follows m's invocation ends in
\* a rejection or in m raising, run() rejects with that error. In an
\* execution of a.chain(m).catch(h): h is invoked at most once, with the
\* error recorded just before (a's producer rejecting, m's container
\* rejecting, or m raising); once run() has settled, h was invoked exactly
\* once if the chain's part ended in a rejection; and if a's producer
\* rejected, m is never invoked.
C28_CatchCoversUpstream ==
  \A k \in RunIds :
    LET log == LogOf(k)
        T == TopCalls(log)
        I == InnerCalls(log)
        e == EffectOf(k) IN
    /\ (e.k = "chain" /\ e.this.effect.k = "catch") =>
         /\ \A j \in T :
              /\ log[j].fn = e.f
              /\ \A i \in (j + 1)..Len(log) : ~IsCall(log[i])
              /\ (Finished(runs[k]) /\ Len(log) > j
                    /\ Rejects(Last(log), Last(log).val)) =>
                   Outcome(runs[k]) = Rejected(Last(log).val)
         /\ \A j \in I : log[j].fn = e.this.effect.f
    /\ (e.k = "catch" /\ e.this.effect.k = "chain") =>
         /\ Cardinality(T) <= 1
         /\ \A j \in T :
              /\ log[j].fn = e.f
              /\ j > 1
              /\ Rejects(log[j - 1], log[j].arg)
         /\ (Settled(runs[k]) /\ Rejects(log[SelfEnd(log)], log[SelfEnd(log)].val))
              => Cardinality(T) = 1
         /\ \A j \in I : log[j].fn = e.this.effect.f
         /\ IsSettle(log[FirstCall(log) - 1], "rejected") =>
              /\ I = {}
              /\ \A j \in T :
                   j = FirstCall(log) /\ log[j].arg = log[j - 1].val

\* In a.catch(h).chain(m), a rejected, h recovered, m was invoked and the
\* container m returned rejected: run() is rejected with that error and h
\* was invoked once, before m.
C28_Witness ==
  \E k \in RunIds :
    /\ EffectOf(k) =
         ChainEffect(IOcatch(IOfromPromise("p1"), "hFrom"), "mProm")
    /\ Cardinality(InnerCalls(LogOf(k))) = 1
    /\ Cardinality(TopCalls(LogOf(k))) = 1
    /\ Last(LogOf(k)) = SettleEv(Rejected(Error("e2")))
    /\ Outcome(runs[k]) = Rejected(Error("e2"))

\* In a.chain(m).catch(h), a rejected: m was not invoked, h was, once.
C28_WitnessUpstream ==
  \E k \in RunIds :
    /\ EffectOf(k) =
         CatchEffect(IOchain(IOfromPromise("p1"), "mInc"), "hFrom")
    /\ InnerCalls(LogOf(k)) = {}
    /\ Cardinality(TopCalls(LogOf(k))) = 1
    /\ Outcome(runs[k]) = Resolved(Num(0))

\* An execution whose first producer raised when invoked, with the error.
ProducerRaised(k, e) ==
  /\ Len(LogOf(k)) >= 2
  /\ LogOf(k)[1].ev = "invoke"
  /\ LogOf(k)[2] = ThrowEv(LogOf(k)[1].fn, e)

\* C29 (as claimed): in an execution of a.chain(m) or a.catch(h) whose
\* producer raised e when invoked, run() has not raised to its caller but
\* returned a future, and for a.catch(h), h is invoked with e.
C29_FailuresAreRejections ==
  \A k \in RunIds, e \in {Error("sync")} :
    (EffectOf(k).k \in {"chain", "catch"} /\ ProducerRaised(k, e)) =>
      /\ runs[k].fut.st # "threw"
      /\ (EffectOf(k).k = "catch" /\ Finished(runs[k])) =>
           \E j \in TopCalls(LogOf(k)) :
             LogOf(k)[j] = CallEv(EffectOf(k).f, e, 0)

\* What the code does: run() of a.catch(h) with a producer that raises
\* has raised to its caller, and h was never invoked.
C29_RunRaised ==
  \E k \in RunIds :
    /\ EffectOf(k).k = "catch"
    /\ Leaf(EffectOf(k)) = ProducerEffect("pThrow")
    /\ runs[k].fut = [st |-> "threw", p |-> "", val |-> Error("sync")]
    /\ LogOf(k) = <<InvokeEv("pThrow"), ThrowEv("pThrow", Error("sync"))>>

\* The invocations an execution made from the reaction at one depth.
CallsAt(log, n) == {j \in 1..Len(log) : IsCall(log[j]) /\ log[j].at = n}

\* How many chain and catch compositions a container is built with.
RECURSIVE Depth(_)
Depth(effect) ==
  IF effect.k \in {"chain", "catch"} THEN 1 + Depth(effect.this.effect)
  ELSE 0

\* Within one execution nothing is invoked twice: the mapper or handler of
\* each composition at most once, and a producer only by run() itself or
\* by the single invocation of a mapper or handler that returned its
\* container.
NoRetry(k) ==
  LET log == LogOf(k)
      invokes == {j \in 1..Len(log) : log[j].ev = "invoke"}
      cs == {j \in 1..Len(log) : IsCall(log[j])} IN
  /\ \A n \in 0..MaxIOs : Cardinality(CallsAt(log, n)) <= 1
  /\ \A j \in cs : log[j].at < Depth(EffectOf(k))
  /\ 1 \in invokes
  /\ \A j \in invokes : j = 1 \/ IsCall(log[j - 1])
  /\ Cardinality(invokes) <= 1 + Cardinality(cs)

\* C30: every execution in which run() returned a future settles in the
\* end, given that the producer futures it awaits settle and that the
\* reactions of settled futures run; and in no execution is anything
\* invoked twice.
C30_RunSettles ==
  /\ [](\A k \in RunIds : NoRetry(k))
  /\ \A k \in 1..MaxRuns :
       (k \in RunIds /\ runs[k].fut.st # "threw")
         ~> (k \in RunIds /\ Settled(runs[k]))

\* An execution of a container of two compositions has settled after
\* waiting for two producer futures, each invoked once.
C30_Witness ==
  \E k \in RunIds :
    /\ Depth(EffectOf(k)) = 2
    /\ Settled(runs[k])
    /\ Count(LogOf(k), "p1") = 1
    /\ Count(LogOf(k), "p2") = 1
    /\ Cardinality(CallsAt(LogOf(k), 0)) = 1
    /\ Cardinality(CallsAt(LogOf(k), 1)) = 1

(***************************************************************************)
(* Properties of extraction and fallible construction, under ValueSpec     *)
(***************************************************************************)
Thrown(c) == c.op # "none" /\ c.ret.threw
Returns(c) == c.op # "none" /\ ~c.ret.threw

TryFromOps ==
  {"Option.tryFrom", "Option.tryFromNullable", "Result.tryFrom",
   "Result.tryFromNullable"}

\* C8 (as claimed): a panic raised inside the function given to tryFrom or
\* tryFromNullable reaches the caller of that operation: the call ends by
\* throwing the panic's error, never by returning None or Err(error).
C8_PanicReachesCaller ==
  (call.op \in TryFromOps /\ call.args[1] \in PanicFns)
    => (Thrown(call) /\ call.ret = Fn0Call(call.args[1]))

\* The variant each extraction aborts on.
WrongVariant(op) ==
  CASE op \in {"Option.expect", "Option.unwrap"} -> "None"
    [] op \in {"Result.expect", "Result.unwrap"} -> "Err"
    [] OTHER -> "Ok"

ExtractOps ==
  {"Option.expect", "Option.unwrap", "Result.expect", "Result.unwrap",
   "Result.expectErr", "Result.unwrapErr"}

\* C9: expect/unwrap (Option and Result) and expectErr/unwrapErr abort
\* exactly when the receiver is the wrong variant (None, Err, Ok) and
\* otherwise return the receiver's payload; a call that aborts returns
\* nothing.
C9_ExtractOrAbort ==
  call.op \in ExtractOps =>
    /\ Thrown(call) <=> call.this.kind = WrongVariant(call.op)
    /\ Returns(call) => call.ret.val = call.this.data
    /\ Thrown(call) => call.ret.val.t = "Error"

C9_Witness ==
  /\ call.op = "Result.unwrapErr"
  /\ call.this.kind = "Ok"
  /\ Thrown(call)

\* The default messages as the claim words them, and as the tests of the
\* repository expect them (with backticks around the method and the
\* variant).
ClaimedDefault(op) ==
  CASE op = "Option.unwrap" -> "called Option.unwrap() on a None value"
    [] op = "Result.unwrap" -> "called Result.unwrap() on an Err value"
    [] OTHER -> "called Result.unwrapErr() on an Ok value"

QuotedDefault(op) ==
  CASE op = "Option.unwrap" ->
         "called " \o BT \o "Option.unwrap()" \o BT \o " on a " \o BT
           \o "None" \o BT \o " value"
    [] op = "Result.unwrap" ->
         "called " \o BT \o "Result.unwrap()" \o BT \o " on an " \o BT
           \o "Err" \o BT \o " value"
    [] OTHER ->
         "called " \o BT \o "Result.unwrapErr()" \o BT \o " on an " \o BT
           \o "Ok" \o BT \o " value"

UnwrapOps == {"Option.unwrap", "Result.unwrap", "Result.unwrapErr"}

PanicText(msg) == "panicked at '" \o msg \o "'"

\* C10 (as claimed): every abort of the expect/unwrap family carries the
\* text panicked at '<message>', the message being the caller's for expect
\* and expectErr and, for the unwraps, the default without any quoting:
\* called Option.unwrap() on a None value, and so on.
C10_AbortTextAsClaimed ==
  (call.op \in ExtractOps /\ Thrown(call)) =>
    call.ret.val.message =
      PanicText(IF call.op \in UnwrapOps THEN ClaimedDefault(call.op)
                ELSE call.args[1])

\* C10 (amended): every abort of the expect/unwrap family is an Error whose
\* text is panicked at '<message>': the caller's message for expect and
\* expectErr, and for the unwraps the default with the method and the variant
\* between backticks.
C10_AbortText ==
  (call.op \in ExtractOps /\ Thrown(call)) =>
    /\ call.ret.val.t = "Error"
    /\ call.ret.val.message =
         PanicText(IF call.op \in UnwrapOps THEN QuotedDefault(call.op)
                   ELSE call.args[1])

C10_Witness ==
  /\ call.op = "Option.unwrap"
  /\ call.this = OptionNone
  /\ Thrown(call)
  /\ call.ret.val.message = PanicText(QuotedDefault("Option.unwrap"))

(***************************************************************************)
(* Properties of the combinators of Option and Result, under ValueSpec     *)
(***************************************************************************)
MatchOps == {"Option.match", "Result.match"}

IsComplete(matcher) == \A b \in DOMAIN matcher : IsFunction(matcher[b])

\* The branch of the receiver's variant, and what match hands to it.
SelectedBranch(c) ==
  CASE c.this.kind = "Some" -> "some"
    [] c.this.kind = "None" -> "none"
    [] c.this.kind = "Ok" -> "ok"
    [] OTHER -> "err"

BranchArgs(c) == IF c.this.kind = "None" THEN <<>> ELSE <<c.this.data>>

\* What a caller's function does when invoked with args.
FnOutcome(f, args) ==
  IF args = <<>> THEN Fn0Call(f) ELSE Fn1Call(f, args[1], "x")

\* C11: match on a complete pattern invokes exactly one branch, the one of
\* the receiver's variant (some with the payload, none with no argument, ok
\* with the value, err with the error), and ends as that branch ends: it
\* returns what the branch returned.
C11_MatchInvokesOneBranch ==
  (call.op \in MatchOps /\ IsComplete(call.args[1])) =>
    LET f == call.args[1][SelectedBranch(call)]
        out == FnOutcome(f, BranchArgs(call)) IN
    /\ call.ret.invoked = <<Invoked(f, BranchArgs(call))>>
    /\ call.ret.threw = out.threw
    /\ call.ret.val = out.val

C11_Witness ==
  /\ call.op = "Option.match"
  /\ call.this.kind = "None"
  /\ IsComplete(call.args[1])
  /\ call.ret.invoked = <<Invoked(call.args[1].none, <<>>)>>
  /\ Returns(call)

\* C12 (as claimed): match with a pattern that lacks one of its two
\* branches fails with an error, whatever the receiver's variant, and never
\* returns a value.
C12_IncompletePatternFails ==
  (call.op \in MatchOps /\ ~IsComplete(call.args[1])) => Thrown(call)

\* Some(v) and None, Ok(v) and Err(e), whatever the container's identity.
IsSomeOf(c, v) == c.t = "opt" /\ c.kind = "Some" /\ c.data = v
IsOkOf(c, v) == c.t = "res" /\ c.kind = "Ok" /\ c.data = v
IsErrOf(c, e) == c.t = "res" /\ c.kind = "Err" /\ c.data = e

\* C13: Option.tryFrom(fn) invokes fn exactly once and returns Some(result)
\* if fn returns and None if fn raises; Option.tryFromNullable(fn) returns
\* None if fn raises or returns null or undefined and Some(result)
\* otherwise; Option.fromNullable(x) is None exactly when x is null or
\* undefined. None of the three raises to its caller.
C13_OptionContainsFailures ==
  /\ call.op \in {"Option.tryFrom", "Option.tryFromNullable"} =>
       LET fn == call.args[1]
           out == Fn0Call(fn)
           absent == out.threw \/ (call.op = "Option.tryFromNullable"
                                     /\ IsNullish(out.val)) IN
       /\ Returns(call)
       /\ call.ret.invoked = <<Invoked(fn, <<>>)>>
       /\ absent => call.ret.val = OptionNone
       /\ ~absent => IsSomeOf(call.ret.val, out.val)
  /\ call.op = "Option.fromNullable" =>
       /\ Returns(call)
       /\ IsNullish(call.args[1]) <=> OptionIsNone(call.ret.val)
       /\ ~IsNullish(call.args[1]) => IsSomeOf(call.ret.val, call.args[1])

C13_Witness ==
  /\ call.op = "Option.tryFromNullable"
  /\ ~Fn0Call(call.args[1]).threw
  /\ Fn0Call(call.args[1]).val = Undefined
  /\ call.ret.val = OptionNone

\* C14: Result.tryFrom(fn, error) returns Ok(result) if fn returns and
\* Err(error) if fn raises; Result.tryFromNullable(fn, error) returns
\* Err(error) if fn raises or returns null or undefined and Ok(result)
\* otherwise. The Err payload is the caller's error value, not the raised
\* exception, and neither operation raises to its caller.
C14_ResultContainsFailures ==
  call.op \in {"Result.tryFrom", "Result.tryFromNullable"} =>
    LET fn == call.args[1]
        out == Fn0Call(fn)
        failed == out.threw \/ (call.op = "Result.tryFromNullable"
                                  /\ IsNullish(out.val)) IN
    /\ Returns(call)
    /\ failed => IsErrOf(call.ret.val, call.args[2])
    /\ ~failed => IsOkOf(call.ret.val, out.val)

C14_Witness ==
  /\ call.op = "Result.tryFrom"
  /\ Fn0Call(call.args[1]).threw
  /\ Fn0Call(call.args[1]).val # call.args[2]
  /\ IsErrOf(call.ret.val, call.args[2])

\* The operations with a lazily computed default, which is their first
\* argument.
LazyOps ==
  {"Option.unwrapOrElse", "Option.mapOrElse", "Option.orElse",
   "Option.okOrElse"}

\* How many times a call invoked f with args.
Invocations(c, f, args) ==
  Cardinality({i \in DOMAIN c.ret.invoked :
                 c.ret.invoked[i] = Invoked(f, args)})

\* What each of these operations yields on Some(v), by the source: the
\* payload, the mapper's outcome, the receiver, Ok(payload).
OnSome(c) ==
  CASE c.op = "Option.unwrapOrElse" ->
         ~c.ret.threw /\ c.ret.val = c.this.data
    [] c.op = "Option.mapOrElse" ->
         LET out == Fn1Call(c.args[2], c.this.data, "x") IN
         c.ret.threw = out.threw /\ c.ret.val = out.val
    [] c.op = "Option.orElse" -> ~c.ret.threw /\ c.ret.val = c.this
    [] OTHER -> ~c.ret.threw /\ IsOkOf(c.ret.val, c.this.data)

\* C15: the default function of Option.unwrapOrElse, mapOrElse, orElse and
\* okOrElse is invoked exactly once, with no argument, when the receiver is
\* None and never when it is Some; on Some the result is fixed by the
\* receiver (and the mapper) alone.
C15_DefaultIsLazy ==
  call.op \in LazyOps =>
    /\ OptionIsNone(call.this) =>
         /\ Invocations(call, call.args[1], <<>>) = 1
         /\ Len(call.ret.invoked) = 1
    /\ OptionIsSome(call.this) =>
         /\ Invocations(call, call.args[1], <<>>) = 0
         /\ OnSome(call)

C15_Witness ==
  /\ call.op = "Option.unwrapOrElse"
  /\ OptionIsSome(call.this)
  /\ call.ret.invoked = <<>>
  /\ call.ret.val = call.this.data

\* The operations that apply their function to the payload of a Some.
SomeOnlyOps ==
  {"Option.map", "Option.andThen", "Option.flatMap", "Option.filter",
   "Option.isSomeAnd"}

\* C16: on None, Option.map, andThen, flatMap, filter and isSomeAnd invoke
\* nothing; the first four return None and isSomeAnd returns false. On
\* Some(v), map, andThen and flatMap invoke the function exactly once, with
\* v; map returns Some(fn(v)) and andThen and flatMap return the very
\* container fn(v) returned.
C16_NoneSkipsTheFunction ==
  call.op \in SomeOnlyOps =>
    /\ OptionIsNone(call.this) =>
         /\ call.ret.invoked = <<>>
         /\ Returns(call)
         /\ call.ret.val = IF call.op = "Option.isSomeAnd" THEN Bool(FALSE)
                           ELSE OptionNone
    /\ (OptionIsSome(call.this) /\ call.op = "Option.map") =>
         LET fn == call.args[1]
             out == Fn1Call(fn, call.this.data, "x") IN
         /\ call.ret.invoked = <<Invoked(fn, <<call.this.data>>)>>
         /\ ~out.threw => Returns(call) /\ IsSomeOf(call.ret.val, out.val)
    /\ (OptionIsSome(call.this)
          /\ call.op \in {"Option.andThen", "Option.flatMap"}) =>
         LET fn == call.args[1] IN
         /\ call.ret.invoked = <<Invoked(fn, <<call.this.data>>)>>
         /\ Returns(call) =>
              LET out == Fn1Call(fn, call.this.data, call.ret.val.id) IN
              ~out.threw /\ call.ret.val = out.val

C16_Witness ==
  /\ call.op = "Option.andThen"
  /\ OptionIsSome(call.this)
  /\ call.args[1].k = "const"
  /\ call.ret.val = call.args[1].val
  /\ call.ret.val # call.this

\* The operations whose first argument is a value that may be a container.
ValueArgOps ==
  {"Option.some", "Option.fromNullable", "Option.and", "Option.or",
   "Result.ok", "Result.err", "Result.and", "Result.or"}

\* Every container a call has to do with: its receiver, its argument, its
\* result, and the containers nested in them.
Touched(c) ==
  IF c.op = "none" THEN {}
  ELSE ContainersOf(c.this)
         \cup (IF c.op \in ValueArgOps THEN ContainersOf(c.args[1]) ELSE {})
         \cup (IF c.ret.threw THEN {} ELSE ContainersOf(c.ret.val))

\* C17: there is one None instance: every Option in the None variant that
\* exists, or that a call returns, is the shared Option.none; no call
\* allocates another.
C17_OneNone ==
  \A c \in heap \cup Touched(call) :
    (c.t = "opt" /\ OptionIsNone(c)) => c = OptionNone

\* filter with a failing predicate has returned the shared None, with
\* other containers constructed.
C17_Witness ==
  /\ call.op = "Option.filter"
  /\ OptionIsSome(call.this)
  /\ call.ret.val = OptionNone
  /\ Cardinality(heap) = MaxObjs

\* C18: every Option is exactly one of Some and None and every Result
\* exactly one of Ok and Err, and a container never changes: wherever a
\* container constructed earlier appears again (as a receiver, an argument,
\* a result or a payload) it has the variant and the payload it was
\* constructed with.
C18_FixedVariant ==
  /\ \A c \in heap \cup Touched(call) :
       IF c.t = "opt" THEN OptionIsSome(c) # OptionIsNone(c)
       ELSE ResultIsOk(c) # ResultIsErr(c)
  /\ \A c \in heap, d \in heap \cup Touched(call) :
       c.id = d.id => (c.kind = d.kind /\ c.data = d.data)

\* A call has returned its own receiver, with other containers around.
C18_Witness ==
  /\ call.op = "Option.filter"
  /\ OptionIsSome(call.this)
  /\ call.ret.val = call.this
  /\ Cardinality(heap) = MaxObjs

\* The same variant and payload, whatever the identity.
SameContent(a, b) == a.kind = b.kind /\ a.data = b.data

\* Two calls end the same way: both throw the same value, or both return
\* containers of the same content.
SameEnd(a, b) ==
  /\ a.threw = b.threw
  /\ IF a.threw THEN a.val = b.val ELSE SameContent(a.val, b.val)

\* C19: Option.map obeys the functor laws on both variants: opt.map(x => x)
\* has the variant and payload of opt, and for the mapper f of a map call
\* and every g, opt.map(f).map(g) has the variant and payload of
\* opt.map(x => g(f(x))).
C19_FunctorLaws ==
  (call.op = "Option.map" /\ Returns(call)) =>
    /\ call.args[1].k = "id" => SameContent(call.ret.val, call.this)
    /\ call.args[1].k # "id" =>
         \A g \in Fn1s :
           SameEnd(OptionMap(call.ret.val, g, "l"),
                   OptionMap(call.this, Compose(g, call.args[1]), "r"))

\* A table that is not the identity has been mapped over a Some.
C19_Witness ==
  /\ call.op = "Option.map"
  /\ call.this.kind = "Some"
  /\ call.this.data \in Values
  /\ call.args[1].k = "table"
  /\ call.ret.val.data # call.this.data

\* C20: some(v).okOr(e) is Ok(v) and none.okOr(e) is Err(e); okOrElse gives
\* Ok(v) on Some(v) without invoking its function, and on None invokes it
\* exactly once and gives Err of what it returned.
C20_OptionToResult ==
  /\ call.op = "Option.okOr" =>
       /\ Returns(call)
       /\ OptionIsSome(call.this) => IsOkOf(call.ret.val, call.this.data)
       /\ OptionIsNone(call.this) => IsErrOf(call.ret.val, call.args[1])
  /\ call.op = "Option.okOrElse" =>
       /\ OptionIsSome(call.this) =>
            /\ call.ret.invoked = <<>>
            /\ Returns(call)
            /\ IsOkOf(call.ret.val, call.this.data)
       /\ OptionIsNone(call.this) =>
            LET out == Fn0Call(call.args[1]) IN
            /\ call.ret.invoked = <<Invoked(call.args[1], <<>>)>>
            /\ ~out.threw => Returns(call) /\ IsErrOf(call.ret.val, out.val)

C20_Witness ==
  /\ call.op = "Option.okOrElse"
  /\ OptionIsNone(call.this)
  /\ Returns(call)
  /\ IsErrOf(call.ret.val, Fn0Call(call.args[1]).val)

\* Whether a container holds a container of its own kind.
IsNested(c) == c.data.t = c.t

\* C21: Option.flatten returns None or a Some whose payload is not an
\* Option; on Some(Some(x)) it returns the inner Some(x), on Some(None) and
\* Some(Some(None)) the shared None, on a container that is not nested the
\* receiver itself; one more level of Some around the receiver flattens to
\* the same container; and flattening the result again returns the result.
C21_OptionFlatten ==
  call.op = "Option.flatten" =>
    LET this == call.this
        ret == call.ret.val IN
    /\ Returns(call)
    /\ ret.t = "opt"
    /\ OptionIsNone(ret) \/ (OptionIsSome(ret) /\ ~IsNested(ret))
    /\ (OptionIsNone(this) \/ ~IsNested(this)) => ret = this
    /\ (OptionIsSome(this) /\ IsNested(this)) =>
         /\ OptionIsNone(this.data) => ret = OptionNone
         /\ (OptionIsSome(this.data) /\ ~IsNested(this.data)) =>
              ret = this.data
         /\ (OptionIsSome(this.data) /\ IsNested(this.data)
               /\ OptionIsNone(this.data.data)) => ret = OptionNone
    /\ OptionFlatten(OptionSome(this, "outer")) = Return(ret)
    /\ OptionFlatten(ret) = Return(ret)

\* Some(Some(None)) has been flattened to the shared None.
C21_Witness ==
  /\ call.op = "Option.flatten"
  /\ OptionIsSome(call.this)
  /\ IsSomeOf(call.this.data, OptionNone)
  /\ call.ret.val = OptionNone

\* Some(Some(x)) has been flattened to the inner Some(x).
C21_WitnessInner ==
  /\ call.op = "Option.flatten"
  /\ OptionIsSome(call.this)
  /\ call.this.data.t = "opt"
  /\ OptionIsSome(call.this.data)
  /\ call.this.data.data \in Values
  /\ call.ret.val = call.this.data

\* C22: Result.flatten returns a Result whose payload is not a Result: the
\* receiver itself when its payload is not a Result, and on Ok(r) with r a
\* Result (Ok(Ok(x)), Ok(Err(e))) the container r; one more level of Ok
\* around the receiver flattens to the same container.
C22_ResultFlatten ==
  call.op = "Result.flatten" =>
    LET this == call.this
        ret == call.ret.val IN
    /\ Returns(call)
    /\ ret.t = "res"
    /\ ~IsNested(ret)
    /\ ~IsNested(this) => ret = this
    /\ (ResultIsOk(this) /\ IsNested(this) /\ ~IsNested(this.data)) =>
         ret = this.data
    /\ ResultFlatten(ResultOk(this, "outer")) = Return(ret)

\* Ok(Err(e)) has been flattened to the inner Err(e).
C22_Witness ==
  /\ call.op = "Result.flatten"
  /\ ResultIsOk(call.this)
  /\ call.this.data.t = "res"
  /\ ResultIsErr(call.this.data)
  /\ call.ret.val = call.this.data

\* C26 (as claimed): Result.flatten on an Err returns that same Err, also
\* when its error payload is a Result.
C26_ErrIsKept ==
  (call.op = "Result.flatten" /\ ResultIsErr(call.this)) =>
    (Returns(call) /\ call.ret.val = call.this)

\* What the code does with a failure that holds a Result: flatten returns
\* the held Result, and so an Ok when that is one.
C26_ErrBecomesOk ==
  /\ call.op = "Result.flatten"
  /\ ResultIsErr(call.this)
  /\ call.this.data.t = "res"
  /\ ResultIsOk(call.this.data)
  /\ call.ret.val = call.this.data

\* The Result operations that act on Ok and pass an Err through, and those
\* that act on Err and pass an Ok through.
OkOps == {"Result.map", "Result.and", "Result.andThen", "Result.flatMap"}
ErrOps == {"Result.mapErr", "Result.or", "Result.orElse"}
FnOps == {"Result.andThen", "Result.flatMap", "Result.orElse"}

C23_WitnessOk ==
  /\ call.op = "Result.mapErr"
  /\ ResultIsOk(call.this)
  /\ IsOkOf(call.ret.val, call.this.data)
  /\ call.args[1].k = "table"

\* C25: a.and(b) is b itself when a is Some and the shared None when a is
\* None; a.or(b) is a itself when a is Some and b itself when a is None;
\* a.orElse(fn) is a itself when a is Some, and when a is None it ends as
\* fn() ends, returning the very container fn returned.
C25_OptionCombination ==
  /\ call.op = "Option.and" =>
       /\ Returns(call)
       /\ call.ret.val = IF OptionIsSome(call.this) THEN call.args[1]
                         ELSE OptionNone
  /\ call.op = "Option.or" =>
       /\ Returns(call)
       /\ call.ret.val = IF OptionIsSome(call.this) THEN call.this
                         ELSE call.args[1]
  /\ call.op = "Option.orElse" =>
       IF OptionIsSome(call.this)
       THEN Returns(call) /\ call.ret.val = call.this
       ELSE LET out == Fn0Call(call.args[1]) IN
            call.ret.threw = out.threw /\ call.ret.val = out.val

\* Some(x).or(Some(y)) has returned the receiver, not the argument.
C25_Witness ==
  /\ call.op = "Option.or"
  /\ OptionIsSome(call.this)
  /\ OptionIsSome(call.args[1])
  /\ call.args[1] # call.this
  /\ call.ret.val = call.this

\* Some(x).and(None) has returned None, the argument.
C25_WitnessAnd ==
  /\ call.op = "Option.and"
  /\ OptionIsSome(call.this)
  /\ call.args[1] = OptionNone
  /\ call.ret.val = OptionNone

(***************************************************************************)
(* Properties of the library as a whole, under LibSpec                     *)
(***************************************************************************)
\* The combinators of Option and Result that take a function and are not
\* of the tryFrom family.
CombinatorOps ==
  {"Option.map", "Option.mapOr", "Option.mapOrElse", "Option.andThen",
   "Option.flatMap", "Option.filter", "Option.orElse", "Option.isSomeAnd",
   "Option.match", "Result.map", "Result.mapOr", "Result.mapOrElse",
   "Result.mapErr", "Result.andThen", "Result.flatMap", "Result.orElse",
   "Result.match"}

\* C24: an exception raised by a function given to a combinator outside
\* the tryFrom family is not contained. For Option and Result: when a
\* function the call invoked raises, the call throws that very error. For
\* IO.chain: when the mapper raises e, the future of that stage is rejected
\* with e, and the execution records nothing further unless the next thing
\* it does is to pass e to the handler of an enclosing catch; with no
\* reaction left, run()'s future is rejected with e.
C24_ExceptionsPropagate ==
  /\ call.op \in CombinatorOps =>
       \A i \in DOMAIN call.ret.invoked :
         LET out == FnOutcome(call.ret.invoked[i].f, call.ret.invoked[i].args)
         IN out.threw => (Thrown(call) /\ call.ret.val = out.val)
  /\ \A k \in RunIds :
       \A j \in 1..Len(LogOf(k)) :
         LET log == LogOf(k) IN
         (log[j].ev = "throw" /\ log[j].fn \in Mappers) =>
           IF j = Len(log)
           THEN /\ runs[k].fut = Rejected(log[j].val)
                /\ runs[k].stack = <<>> =>
                     Outcome(runs[k]) = Rejected(log[j].val)
           ELSE /\ log[j + 1].ev = "call"
                /\ log[j + 1].fn \in Handlers
                /\ log[j + 1].arg = log[j].val
                /\ \E n \in DOMAIN made :
                     made[n].op = "catch" /\ made[n].fn = log[j + 1].fn

\* Two chains ran; the first mapper raised, the second was never invoked,
\* and run()'s future is rejected with the mapper's error.
C24_Witness ==
  \E k \in RunIds :
    /\ EffectOf(k).k = "chain"
    /\ EffectOf(k).this.effect.k = "chain"
    /\ Last(LogOf(k)) = ThrowEv("mThrow", Error("m"))
    /\ Outcome(runs[k]) = Rejected(Error("m"))

\* A predicate given to filter has raised and filter has thrown its error.
C24_WitnessFilter ==
  /\ call.op = "Option.filter"
  /\ call.ret.invoked # <<>>
  /\ Thrown(call)
  /\ call.ret.val = Error("e1")

====
